---- MODULE Spec2Model ----
(***************************************************************************)
(* Simulation-result reconciliation and call-hierarchy analysis:           *)
(*   - the response normalizer   (src/src/lib/format.ts)                    *)
(*   - the call tree builder     (views/CallTraceTree.tsx, views/GasView.tsx)*)
(*   - the flow series sampler   (views/AssetsView.tsx)                     *)
(* JSON values are tagged records; a JSON string is a sequence of           *)
(* one-character strings, an object is a function from its keys.            *)
(***************************************************************************)
EXTENDS Integers, Sequences, FiniteSets, TLC

VARIABLES payload, result, renorm, trace, tree, gasNodes
VARIABLES series, pointBudget, sampled, flowRange, flowValues
VARIABLES assetChanges, actorAddress, stats
VARIABLES remoteRaw, savedSimulations, executionHistory, historyData, now, recorded
VARIABLES simulation, simulationRequest, simulationError, isSimulating, requests
VARIABLES simulationGasUsed, totals
VARIABLES participantRows, sortedRows, netFlowData
VARIABLES form, isConnected, isSending, isSwitching, toEnsAddressQuery, lastSend

normalizeVars == <<payload, result, renorm>>
treeVars == <<trace, tree, gasNodes>>
flowVars == <<series, pointBudget, sampled, flowRange, flowValues>>

assetVars == <<assetChanges, actorAddress, stats>>

historyVars ==
  <<remoteRaw, savedSimulations, executionHistory, historyData, now, recorded>>

simulateVars ==
  <<simulation, simulationRequest, simulationError, isSimulating, requests>>

totalsVars == <<simulationGasUsed, totals>>

netFlowVars == <<participantRows, sortedRows, netFlowData>>

sendVars == <<form, isConnected, isSending, isSwitching, toEnsAddressQuery, lastSend>>

vars ==
  <<normalizeVars, treeVars, flowVars, assetVars, historyVars, simulateVars, totalsVars, netFlowVars, sendVars>>

\* the variables outside each subsystem
outsideNormalize == <<treeVars, flowVars, assetVars, historyVars, simulateVars, totalsVars, netFlowVars, sendVars>>
outsideTree == <<normalizeVars, flowVars, assetVars, historyVars, simulateVars, totalsVars, netFlowVars, sendVars>>
outsideFlow == <<normalizeVars, treeVars, assetVars, historyVars, simulateVars, totalsVars, netFlowVars, sendVars>>
outsideAssets == <<normalizeVars, treeVars, flowVars, historyVars, simulateVars, totalsVars, netFlowVars, sendVars>>
outsideHistory == <<normalizeVars, treeVars, flowVars, assetVars, simulateVars, totalsVars, netFlowVars, sendVars>>
outsideSimulate == <<normalizeVars, treeVars, flowVars, assetVars, historyVars, totalsVars, netFlowVars, sendVars>>
outsideTotals == <<normalizeVars, treeVars, flowVars, assetVars, historyVars, simulateVars, netFlowVars, sendVars>>
outsideNetFlow == <<normalizeVars, treeVars, flowVars, assetVars, historyVars, simulateVars, totalsVars, sendVars>>
outsideSend == <<normalizeVars, treeVars, flowVars, assetVars, historyVars, simulateVars, totalsVars, netFlowVars>>

(***************************************************************************)
(* JSON / JavaScript values                                                *)
(***************************************************************************)
Undef == [t |-> "undef"]
Null == [t |-> "null"]
Bool(b) == [t |-> "bool", v |-> b]
Num(n) == [t |-> "num", v |-> n]
Str(s) == [t |-> "str", v |-> s]
Arr(s) == [t |-> "arr", v |-> s]
Obj(f) == [t |-> "obj", v |-> f]

EmptyObj == [k \in {} |-> Undef]

\* marker of "the operation has not run yet"
NotRun == [t |-> "notrun"]

\* an exception escaped the computation
Threw == [t |-> "threw"]

\* a subsystem that is not exercised
NormalizeIdle == payload = Undef /\ result = NotRun /\ renorm = NotRun
TreeIdle == trace = <<>> /\ tree = NotRun /\ gasNodes = NotRun

\* the builders have returned a value
TreeBuilt == tree # NotRun /\ tree # Threw
GasNodesBuilt == gasNodes # NotRun /\ gasNodes # Threw
FlowIdle ==
  /\ series = <<>>
  /\ pointBudget = 1
  /\ sampled = NotRun
  /\ flowRange = "30"
  /\ flowValues = NotRun
AssetsIdle == assetChanges = <<>> /\ actorAddress = Undef /\ stats = NotRun
HistoryIdle ==
  /\ remoteRaw = <<>>
  /\ savedSimulations = NotRun
  /\ executionHistory = <<>>
  /\ historyData = <<>>
  /\ now = 0
  /\ recorded = <<>>
SimulateIdle ==
  /\ simulation = Null
  /\ simulationRequest = Null
  /\ simulationError = Null
  /\ isSimulating = FALSE
  /\ requests = <<>>
SendIdle ==
  /\ form = [to |-> <<>>, calldata |-> <<>>, valueEth |-> <<>>, gasLimit |-> <<>>]
  /\ isConnected = FALSE
  /\ isSending = FALSE
  /\ isSwitching = FALSE
  /\ toEnsAddressQuery = [isFetching |-> FALSE, isError |-> FALSE, data |-> Undef]
  /\ lastSend = NotRun

NetFlowIdle ==
  /\ participantRows = <<>>
  /\ sortedRows = <<>>
  /\ netFlowData = NotRun
TotalsIdle ==
  /\ simulationGasUsed = Undef
  /\ totals = NotRun

IsArray(value) == value.t = "arr"

TypeofObject(value) == value.t \in {"null", "arr", "obj"}

\* Boolean(value)
Truthy(value) ==
  CASE value.t = "undef" -> FALSE
    [] value.t = "null" -> FALSE
    [] value.t = "bool" -> value.v
    [] value.t = "num" -> value.v # 0
    [] value.t = "str" -> value.v # <<>>
    [] OTHER -> TRUE

Nullish(value) == value.t \in {"undef", "null"}

\* a ?? b
Coalesce(a, b) == IF Nullish(a) THEN b ELSE a

\* the own enumerable properties of a value, as object spread sees them
Fields(value) == IF value.t = "obj" THEN value.v ELSE EmptyObj

\* obj[key]
Get(obj, key) == IF key \in DOMAIN obj THEN obj[key] ELSE Undef

\* obj[key] = val
Put(obj, key, val) ==
  [k \in (DOMAIN obj) \cup {key} |-> IF k = key THEN val ELSE obj[k]]

\* out.key = val, guarded by "if (val !== undefined)"
PutDefined(obj, key, val) == IF val # Undef THEN Put(obj, key, val) ELSE obj

\* { ...a, ...b }
Spread(a, b) ==
  [k \in (DOMAIN a) \cup (DOMAIN b) |-> IF k \in DOMAIN b THEN b[k] ELSE a[k]]

\* obj without the keys in ks
Without(obj, ks) == [k \in (DOMAIN obj) \ ks |-> obj[k]]

isRecordNoNullCheck(value) == TypeofObject(value) /\ ~IsArray(value)

isRecord(value) == Truthy(value) /\ TypeofObject(value) /\ ~IsArray(value)

pickLast(obj, keys) ==
  LET hits == {i \in 1..Len(keys) : Get(obj, keys[i]) # Undef}
  IN IF hits = {} THEN Undef
     ELSE Get(obj, keys[CHOOSE i \in hits : \A j \in hits : j <= i])

pick(obj, keys) ==
  LET hits == {i \in 1..Len(keys) : Get(obj, keys[i]) # Undef}
  IN IF hits = {} THEN Undef
     ELSE Get(obj, keys[CHOOSE i \in hits : \A j \in hits : i <= j])

(***************************************************************************)
(* Element normalizers                                                     *)
(***************************************************************************)
normalizeDecodedParam(value) ==
  IF ~isRecord(value) THEN Null
  ELSE Obj(PutDefined(Fields(value), "indexed",
                      pick(Fields(value), <<"indexed", "is_indexed">>)))

normalizeDecodedParams(value) ==
  IF ~IsArray(value) THEN Undef
  ELSE Arr(SelectSeq([i \in 1..Len(value.v) |-> normalizeDecodedParam(value.v[i])], Truthy))

normalizeTraceEntry(value) ==
  IF ~isRecord(value) THEN Null
  ELSE LET o1 == PutDefined(Fields(value), "gasUsed",
                            pick(Fields(value), <<"gasUsed", "gas_used">>))
           o2 == PutDefined(o1, "traceAddress",
                            pick(Fields(value), <<"traceAddress", "trace_address">>))
           o3 == PutDefined(o2, "decodedInput",
                            normalizeDecodedParams(
                              pick(Fields(value), <<"decodedInput", "decoded_input">>)))
           o4 == PutDefined(o3, "decodedOutput",
                            normalizeDecodedParams(
                              pick(Fields(value), <<"decodedOutput", "decoded_output">>)))
       IN Obj(o4)

normalizeTraceUnfiltered(value) ==
  IF ~IsArray(value) THEN Undef
  ELSE Arr([i \in 1..Len(value.v) |-> normalizeTraceEntry(value.v[i])])

normalizeTrace(value) ==
  IF ~IsArray(value) THEN Undef
  ELSE Arr(SelectSeq([i \in 1..Len(value.v) |-> normalizeTraceEntry(value.v[i])], Truthy))

normalizeLog(value) ==
  IF ~isRecord(value) THEN Null
  ELSE LET o1 == PutDefined(Fields(value), "inputs",
                            normalizeDecodedParams(
                              pick(Fields(value), <<"inputs", "decoded_inputs">>)))
           o2 == PutDefined(o1, "raw", pick(Fields(value), <<"raw", "raw_log">>))
       IN Obj(o2)

normalizeLogs(value) ==
  IF ~IsArray(value) THEN Undef
  ELSE Arr(SelectSeq([i \in 1..Len(value.v) |-> normalizeLog(value.v[i])], Truthy))

normalizeValueChange(value) ==
  IF ~isRecord(value) THEN Undef
  ELSE LET previousValue == pick(Fields(value), <<"previousValue", "previous_value">>)
           newValue == pick(Fields(value), <<"newValue", "new_value">>)
       IN IF previousValue = Undef /\ newValue = Undef THEN Undef
          ELSE Obj([k \in {"previousValue", "newValue"} |->
                      IF k = "previousValue" THEN previousValue ELSE newValue])

normalizeStorageSlot(s) ==
  IF ~isRecord(s) THEN s
  ELSE Obj(PutDefined(
             PutDefined(Fields(s), "previousValue",
                        pick(Fields(s), <<"previousValue", "previous_value">>)),
             "newValue", pick(Fields(s), <<"newValue", "new_value">>)))

normalizeStateChange(value) ==
  IF ~isRecord(value) THEN Null
  ELSE LET nonce == normalizeValueChange(pick(Fields(value), <<"nonce">>))
           o1 == IF Truthy(nonce) THEN Put(Fields(value), "nonce", nonce) ELSE Fields(value)
           balance == normalizeValueChange(pick(Fields(value), <<"balance">>))
           o2 == IF Truthy(balance) THEN Put(o1, "balance", balance) ELSE o1
           storageRaw == pick(Fields(value), <<"storage">>)
           o3 == IF IsArray(storageRaw)
                 THEN Put(o2, "storage",
                          Arr([i \in 1..Len(storageRaw.v) |->
                                 normalizeStorageSlot(storageRaw.v[i])]))
                 ELSE o2
       IN Obj(o3)

normalizeStateChanges(value) ==
  IF ~IsArray(value) THEN Undef
  ELSE Arr(SelectSeq([i \in 1..Len(value.v) |-> normalizeStateChange(value.v[i])], Truthy))

normalizeAssetInfo(value) ==
  IF ~isRecord(value) THEN Undef
  ELSE Obj(PutDefined(
             PutDefined(Fields(value), "contractAddress",
                        pick(Fields(value), <<"contractAddress", "contract_address">>)),
             "dollarValue", pick(Fields(value), <<"dollarValue", "dollar_value">>)))

normalizeExposureChange(value) ==
  IF ~isRecord(value) THEN Null
  ELSE LET o1 == PutDefined(Fields(value), "rawAmount",
                            pick(Fields(value), <<"rawAmount", "raw_amount">>))
           o2 == PutDefined(o1, "dollarValue",
                            pick(Fields(value), <<"dollarValue", "dollar_value">>))
           o3 == PutDefined(o2, "assetInfo",
                            normalizeAssetInfo(
                              pick(Fields(value), <<"assetInfo", "asset_info">>)))
       IN Obj(o3)

normalizeExposureChanges(value) ==
  IF ~IsArray(value) THEN Undef
  ELSE Arr(SelectSeq([i \in 1..Len(value.v) |-> normalizeExposureChange(value.v[i])], Truthy))

normalizeAssetChange(value) ==
  IF ~isRecord(value) THEN Null
  ELSE LET o1 == PutDefined(Fields(value), "rawAmount",
                            pick(Fields(value), <<"rawAmount", "raw_amount">>))
           o2 == PutDefined(o1, "dollarValue",
                            pick(Fields(value), <<"dollarValue", "dollar_value">>))
           o3 == PutDefined(o2, "assetInfo",
                            normalizeAssetInfo(
                              pick(Fields(value), <<"assetInfo", "asset_info">>)))
       IN Obj(o3)

normalizeAssetChanges(value) ==
  IF ~IsArray(value) THEN Undef
  ELSE Arr(SelectSeq([i \in 1..Len(value.v) |-> normalizeAssetChange(value.v[i])], Truthy))

normalizeBalanceChange(value) ==
  IF ~isRecord(value) THEN Null
  ELSE Obj(PutDefined(Fields(value), "dollarValue",
                      pick(Fields(value), <<"dollarValue", "dollar_value">>)))

normalizeBalanceChanges(value) ==
  IF ~IsArray(value) THEN Undef
  ELSE Arr(SelectSeq([i \in 1..Len(value.v) |-> normalizeBalanceChange(value.v[i])], Truthy))

(***************************************************************************)
(* normalizeTenderlySimulateResult                                         *)
(***************************************************************************)
\* { jsonrpc, id, result: { ... }, ...extras }  ->  { ...result, ...extras }
envelopeBase(p) ==
  IF "result" \in DOMAIN p
  THEN LET r == pick(p, <<"result">>)
       IN IF isRecord(r)
          THEN Spread(Fields(r), Without(p, {"result", "jsonrpc", "id"}))
          ELSE p
  ELSE p

\* isRecord(out.transaction) ? out.transaction : undefined
recordAt(obj, key) == IF isRecord(Get(obj, key)) THEN Get(obj, key) ELSE Undef

\* loc && isRecord(loc.key) ? loc.key : undefined
nestedRecordAt(loc, key) == IF loc # Undef THEN recordAt(Fields(loc), key) ELSE Undef

\* loc ? pick(loc, ...keys) : undefined
pickIn(loc, keys) == IF loc # Undef THEN pick(Fields(loc), keys) ELSE Undef

\* a ?? b ?? c ?? d over a list of operands
RECURSIVE CoalesceAll(_)
CoalesceAll(operands) ==
  IF Len(operands) = 1 THEN operands[1]
  ELSE Coalesce(CoalesceAll(SubSeq(operands, 1, Len(operands) - 1)),
                operands[Len(operands)])

gasUsedKeys == <<"gasUsed", "gas_used">>
statusKeys == <<"status">>
errorMessageKeys == <<"errorMessage", "error_message">>
traceKeys == <<"trace", "call_trace">>
logsKeys == <<"logs">>
stateChangesKeys == <<"stateChanges", "state_changes">>
assetChangesKeys == <<"assetChanges", "asset_changes">>
exposureChangesKeys == <<"exposureChanges", "exposure_changes">>
balanceChangesKeys == <<"balanceChanges", "balance_changes">>

normalizeTenderlySimulateResult(p) ==
  IF ~isRecord(p) THEN Null
  ELSE
    LET base == envelopeBase(Fields(p))
        tx == recordAt(base, "transaction")
        sim == recordAt(base, "simulation")
        txInfo == nestedRecordAt(tx, "transaction_info")
        simShared == nestedRecordAt(sim, "shared")
        gasUsed == CoalesceAll(<<pick(base, gasUsedKeys),
                                 pickIn(sim, gasUsedKeys),
                                 pickIn(tx, gasUsedKeys),
                                 pickIn(txInfo, gasUsedKeys)>>)
        status == CoalesceAll(<<pick(base, statusKeys),
                                pickIn(sim, statusKeys),
                                pickIn(tx, statusKeys)>>)
        errorMessage == CoalesceAll(<<pick(base, errorMessageKeys),
                                      pickIn(sim, errorMessageKeys),
                                      pickIn(tx, errorMessageKeys),
                                      pickIn(txInfo, errorMessageKeys)>>)
        traceSrc == CoalesceAll(<<pick(base, traceKeys),
                                  pickIn(tx, traceKeys),
                                  pickIn(txInfo, traceKeys),
                                  pickIn(simShared, traceKeys)>>)
        logsSrc == CoalesceAll(<<pick(base, logsKeys),
                                 pickIn(tx, logsKeys),
                                 pickIn(txInfo, logsKeys),
                                 pickIn(simShared, logsKeys)>>)
        stateChangesSrc == CoalesceAll(<<pick(base, stateChangesKeys),
                                         pickIn(simShared, stateChangesKeys),
                                         pickIn(txInfo, stateChangesKeys)>>)
        assetChangesSrc == CoalesceAll(<<pick(base, assetChangesKeys),
                                         pickIn(simShared, assetChangesKeys),
                                         pickIn(txInfo, assetChangesKeys)>>)
        exposureChangesSrc == CoalesceAll(<<pick(base, exposureChangesKeys),
                                            pickIn(simShared, exposureChangesKeys),
                                            pickIn(txInfo, exposureChangesKeys)>>)
        balanceChangesSrc == CoalesceAll(<<pick(base, balanceChangesKeys),
                                           pickIn(simShared, balanceChangesKeys),
                                           pickIn(txInfo, balanceChangesKeys)>>)
        o1 == PutDefined(base, "gasUsed", gasUsed)
        o2 == PutDefined(o1, "status", status)
        o3 == PutDefined(o2, "errorMessage", errorMessage)
        o4 == PutDefined(o3, "trace", normalizeTrace(traceSrc))
        o5 == PutDefined(o4, "logs", normalizeLogs(logsSrc))
        o6 == PutDefined(o5, "stateChanges", normalizeStateChanges(stateChangesSrc))
        o7 == PutDefined(o6, "assetChanges", normalizeAssetChanges(assetChangesSrc))
        o8 == PutDefined(o7, "exposureChanges",
                         normalizeExposureChanges(exposureChangesSrc))
        o9 == PutDefined(o8, "balanceChanges",
                         normalizeBalanceChanges(balanceChangesSrc))
    IN Obj(o9)

(***************************************************************************)
(* Upstream payloads the normalizer is run on                              *)
(***************************************************************************)
\* most populated slots (location x spelling) of one logical field
MaxSlots == 2
\* most elements of a nested array
MaxElems == 1

\* 1 root, 2 simulation, 3 transaction, 4 transaction.transaction_info,
\* 5 simulation.shared
Locations == 1..5

FieldKeys == {gasUsedKeys, statusKeys, errorMessageKeys, traceKeys, logsKeys,
              stateChangesKeys, assetChangesKeys, exposureChangesKeys,
              balanceChangesKeys}

ScalarFieldKeys == {gasUsedKeys, statusKeys, errorMessageKeys}

Slots(keys) == Locations \X (1..Len(keys))

\* an array element in snake_case, marked by the slot it sits in
SnakeElement(n) ==
  Obj([k \in {"gas_used", "dollar_value", "raw_log"} |-> Num(n)])

\* the value a populated slot carries: distinct per slot
GoodValue(keys, slot) ==
  LET n == 10 * slot[1] + slot[2]
  IN IF keys \in ScalarFieldKeys THEN Num(n)
     ELSE Arr(<<Null, SnakeElement(n)>>)

SlotAssignments(keys) ==
  UNION {[S -> {"null", "good"}] :
           S \in {T \in SUBSET Slots(keys) : Cardinality(T) <= MaxSlots}}

SlotValue(keys, a, slot) ==
  IF slot \notin DOMAIN a THEN Undef
  ELSE IF a[slot] = "null" THEN Null ELSE GoodValue(keys, slot)

\* the object at location l holding the populated spellings, plus `extra`
LocationObject(keys, a, l, extra) ==
  LET js == {j \in 1..Len(keys) : <<l, j>> \in DOMAIN a}
      own == [k \in {keys[j] : j \in js} |->
                SlotValue(keys, a, <<l, CHOOSE j \in js : keys[j] = k>>)]
  IN Spread(own, extra)

Nest(key, obj) ==
  IF DOMAIN obj = {} THEN EmptyObj ELSE [k \in {key} |-> Obj(obj)]

FieldPayload(keys, a) ==
  LET txInfo == LocationObject(keys, a, 4, EmptyObj)
      shared == LocationObject(keys, a, 5, EmptyObj)
      tx == LocationObject(keys, a, 3, Nest("transaction_info", txInfo))
      sim == LocationObject(keys, a, 2, Nest("shared", shared))
  IN Obj(LocationObject(keys, a, 1,
           Spread(Nest("simulation", sim), Nest("transaction", tx))))

Envelope(core) ==
  Obj([k \in {"jsonrpc", "id", "result"} |->
         IF k = "jsonrpc" THEN Str(<<"2", ".", "0">>)
         ELSE IF k = "id" THEN Num(1) ELSE core])

\* the payloads that populate the slots of one of the given fields
FieldPayloads(fields) ==
  UNION {{FieldPayload(keys, a) : a \in SlotAssignments(keys)} : keys \in fields}

\* payloads that are not structured objects
NonRecordPayloads ==
  {Undef, Null, Bool(FALSE), Bool(TRUE), Num(0), Num(7), Str(<<>>),
   Str(<<"n", "o">>), Arr(<<>>), Arr(<<Obj(EmptyObj)>>)}

\* envelopes whose siblings and result share keys
SiblingKeys == {"jsonrpc", "id", "foo", "gas_used", "status"}
ResultKeys == {"foo", "bar", "gas_used", "id", "result"}

SiblingValue(k) ==
  CASE k = "jsonrpc" -> Str(<<"2", ".", "0">>)
    [] k = "id" -> Num(1)
    [] k = "foo" -> Str(<<"s", "i", "b">>)
    [] k = "gas_used" -> Num(21)
    [] OTHER -> Bool(TRUE)

ResultValue(k) ==
  CASE k = "foo" -> Str(<<"r", "e", "s">>)
    [] k = "bar" -> Num(3)
    [] k = "gas_used" -> Num(42)
    [] k = "id" -> Num(9)
    [] OTHER -> Obj([j \in {"baz"} |-> Num(5)])

ResultChoices ==
  {Undef, Null, Num(0), Str(<<"o", "k">>), Arr(<<Obj(EmptyObj)>>)}
    \cup {Obj([k \in K |-> ResultValue(k)]) : K \in SUBSET ResultKeys}

EnvelopePayloads ==
  {Obj(PutDefined([k \in K |-> SiblingValue(k)], "result", r)) :
     K \in SUBSET SiblingKeys, r \in ResultChoices}

\* nested containers that are not records
ContainerChoices ==
  {Null, Str(<<"x">>), Arr(<<Obj([k \in {"gasUsed"} |-> Num(8)])>>),
   Obj([k \in {"transaction_info", "shared"} |-> Arr(<<>>)])}

ContainerPayloads ==
  {Obj([k \in {"simulation", "transaction"} |->
          IF k = "simulation" THEN a ELSE b]) :
     a \in ContainerChoices, b \in ContainerChoices}

\* elements of the nested arrays
ElementChoices ==
  {Null, Num(1), Str(<<"e">>), Arr(<<>>),
   SnakeElement(2),
   Obj([k \in {"gasUsed", "gas_used"} |-> IF k = "gasUsed" THEN Null ELSE Num(5)]),
   Obj([k \in {"decoded_input", "inputs"} |->
          Arr(<<Null, Obj([j \in {"is_indexed"} |-> Bool(TRUE)])>>)]),
   Obj([k \in {"nonce", "storage"} |->
          IF k = "nonce" THEN Obj([j \in {"previous_value"} |-> Num(1)])
          ELSE Arr(<<Num(4), Obj([j \in {"new_value"} |-> Num(6)])>>)]),
   Obj([k \in {"asset_info", "raw_amount"} |->
          IF k = "asset_info" THEN Obj([j \in {"contract_address"} |-> Str(<<"a">>)])
          ELSE Num(2)])}

ElementSeqs == UNION {[1..n -> ElementChoices] : n \in 0..MaxElems}

ArrayFieldKeys == FieldKeys \ ScalarFieldKeys

ArrayPayloads ==
  {Obj([k \in {keys[1]} |-> Arr(es)]) : keys \in ArrayFieldKeys, es \in ElementSeqs}

\* collections that mix malformed elements with objects numbered by position
MaxMixed == 3

MalformedElements == {Undef, Null, Num(7), Arr(<<Obj(EmptyObj)>>)}

NumberedElement(i) ==
  Obj([k \in {"position", "gas_used"} |-> IF k = "position" THEN Num(i) ELSE Num(5)])

MixedSeqs ==
  UNION {{es \in [1..n -> MalformedElements \cup {NumberedElement(i) : i \in 1..n}] :
            \A i \in 1..n : es[i].t = "obj" => es[i] = NumberedElement(i)} :
         n \in 1..MaxMixed}

\* the collection sits under the canonical key or under its alias
MixedPayloads ==
  UNION {{Obj([k \in {keys[a]} |-> Arr(es)]) : a \in 1..Len(keys), es \in MixedSeqs} :
         keys \in ArrayFieldKeys}

\* the payloads that do not go by slots
OtherPayloads ==
  NonRecordPayloads \cup EnvelopePayloads \cup ContainerPayloads \cup ArrayPayloads
    \cup MixedPayloads

\* a payload of the given ones, bare or inside a JSON-RPC envelope
BareOrEnveloped(body, slotted) ==
  \/ body \in slotted
  \/ body \in {Envelope(c) : c \in slotted}

(***************************************************************************)
(* Normalizer runs                                                         *)
(***************************************************************************)
InitNormalize ==
  /\ \/ payload \in OtherPayloads
     \/ \E slotted \in {FieldPayloads(FieldKeys)} : BareOrEnveloped(payload, slotted)
  /\ result = NotRun
  /\ renorm = NotRun
  /\ TreeIdle
  /\ FlowIdle
  /\ AssetsIdle
  /\ HistoryIdle
  /\ SimulateIdle
  /\ TotalsIdle
  /\ NetFlowIdle
  /\ SendIdle

\* const result = normalizeTenderlySimulateResult(payload)
Normalize ==
  /\ result = NotRun
  /\ result' = normalizeTenderlySimulateResult(payload)
  /\ UNCHANGED <<payload, renorm, outsideNormalize>>

\* the canonical result is handed to the normalizer again
Renormalize ==
  /\ result # NotRun
  /\ result # Null
  /\ renorm = NotRun
  /\ renorm' = normalizeTenderlySimulateResult(result)
  /\ UNCHANGED <<payload, result, outsideNormalize>>

NextNormalize == Normalize \/ Renormalize

SpecNormalize == InitNormalize /\ [][NextNormalize]_vars

(***************************************************************************)
(* Gas parsing and path keys                                               *)
(***************************************************************************)
HexDigits ==
  <<"0", "1", "2", "3", "4", "5", "6", "7", "8", "9",
    "a", "b", "c", "d", "e", "f">>
UpperHexDigits == <<"A", "B", "C", "D", "E", "F">>

IsDecDigit(c) == \E i \in 1..10 : HexDigits[i] = c
IsHexDigit(c) ==
  (\E i \in 1..16 : HexDigits[i] = c) \/ (\E i \in 1..6 : UpperHexDigits[i] = c)

DigitValue(c) ==
  IF \E i \in 1..16 : HexDigits[i] = c
  THEN (CHOOSE i \in 1..16 : HexDigits[i] = c) - 1
  ELSE (CHOOSE i \in 1..6 : UpperHexDigits[i] = c) + 9

\* the digits cs read in the given base
RECURSIVE DigitsToInt(_, _)
DigitsToInt(cs, base) ==
  IF cs = <<>> THEN 0
  ELSE DigitsToInt(SubSeq(cs, 1, Len(cs) - 1), base) * base
         + DigitValue(cs[Len(cs)])

\* value.trim()
RECURSIVE trim(_)
trim(cs) ==
  IF cs = <<>> THEN cs
  ELSE IF Head(cs) = " " THEN trim(Tail(cs))
  ELSE IF cs[Len(cs)] = " " THEN trim(SubSeq(cs, 1, Len(cs) - 1))
  ELSE cs

\* /^0x[0-9a-fA-F]+$/
IsHexLiteral(cs) ==
  /\ Len(cs) >= 3
  /\ cs[1] = "0"
  /\ cs[2] = "x"
  /\ \A i \in 3..Len(cs) : IsHexDigit(cs[i])

\* /^\d+$/
IsDecLiteral(cs) == Len(cs) >= 1 /\ \A i \in 1..Len(cs) : IsDecDigit(cs[i])

\* hexToBigIntSafe: a bigint as Num(n), or Undef
hexToBigIntSafe(value) ==
  IF value.t = "num" THEN (IF value.v < 0 THEN Undef ELSE Num(value.v))
  ELSE IF value.t # "str" THEN Undef
  ELSE LET cs == trim(value.v)
       IN IF cs = <<>> THEN Undef
          ELSE IF IsHexLiteral(cs)
               THEN Num(DigitsToInt(SubSeq(cs, 3, Len(cs)), 16))
          ELSE IF IsDecLiteral(cs) THEN Num(DigitsToInt(cs, 10))
          ELSE Undef

\* hexToBigIntSafe(entry.gasUsed) ?? 0n
gasOf(entry) ==
  Coalesce(hexToBigIntSafe(Get(Fields(entry), "gasUsed")), Num(0)).v

\* Array.isArray(entry.traceAddress) ? entry.traceAddress : []
traceAddressOf(entry) ==
  LET a == Get(Fields(entry), "traceAddress")
  IN IF IsArray(a) THEN a.v ELSE <<>>

\* JSON.stringify of an array of integers
RECURSIVE JoinSegments(_)
JoinSegments(path) ==
  IF path = <<>> THEN ""
  ELSE IF Len(path) = 1 THEN ToString(path[1].v)
  ELSE JoinSegments(SubSeq(path, 1, Len(path) - 1)) \o "," \o ToString(path[Len(path)].v)

Stringify(path) == "[" \o JoinSegments(path) \o "]"

\* parentKey === null
NoParent == "null"

keyOf(entry) == Stringify(traceAddressOf(entry))

parentKeyOf(entry) ==
  LET a == traceAddressOf(entry)
  IN IF Len(a) # 0 THEN Stringify(SubSeq(a, 1, Len(a) - 1)) ELSE NoParent

\* typeof entry.error === "string" ? entry.error : undefined
errorOf(entry) ==
  LET e == Get(Fields(entry), "error")
  IN IF e.t = "str" THEN e ELSE Undef

\* Map.set: a new key goes to the end, a known key keeps its place
MapSet(order, key) ==
  IF \E i \in 1..Len(order) : order[i] = key THEN order ELSE Append(order, key)

\* Array.prototype.sort with comparator rank(a) - rank(b): stable
StableSort(s, rank) ==
  LET before(i) == {j \in 1..Len(s) :
                      \/ rank[s[j]] < rank[s[i]]
                      \/ (rank[s[j]] = rank[s[i]] /\ j < i)}
  IN [p \in 1..Len(s) |->
        s[CHOOSE i \in 1..Len(s) : Cardinality(before(i)) = p - 1]]

\* sum of f over the elements of a sequence
RECURSIVE SumSeq(_, _)
SumSeq(s, f) == IF s = <<>> THEN 0 ELSE f[Head(s)] + SumSeq(Tail(s), f)

\* gas > childrenGas ? gas - childrenGas : 0n
exclusive(gas, childrenGas) == IF gas > childrenGas THEN gas - childrenGas ELSE 0

\* key and parentKey of every entry, in trace order
keysOfTrace(tr) == [i \in 1..Len(tr) |-> keyOf(tr[i])]
parentKeysOfTrace(tr) == [i \in 1..Len(tr) |-> parentKeyOf(tr[i])]

\* childrenByKey after the scan of the first n entries
RECURSIVE childrenByKeyOf(_, _, _)
childrenByKeyOf(ks, ps, n) ==
  IF n = 0 THEN [k \in {} |-> <<>>]
  ELSE LET prev == childrenByKeyOf(ks, ps, n - 1)
           parentKey == ps[n]
           existing == IF parentKey \in DOMAIN prev THEN prev[parentKey] ELSE <<>>
       IN IF parentKey # NoParent /\ parentKey # ""
          THEN [k \in (DOMAIN prev) \cup {parentKey} |->
                  IF k = parentKey THEN Append(existing, ks[n]) ELSE prev[k]]
          ELSE prev

\* insertion order of nodesByKey after the scan of the first n entries
RECURSIVE orderOf(_, _)
orderOf(ks, n) == IF n = 0 THEN <<>> ELSE MapSet(orderOf(ks, n - 1), ks[n])

\* the entry nodesByKey holds for a key: the last one carrying it
lastEntryOf(tr, ks, key) ==
  tr[CHOOSE i \in 1..Len(tr) :
       /\ ks[i] = key
       /\ \A j \in (i + 1)..Len(tr) : ks[j] # key]

KeysOf(order) == {order[i] : i \in 1..Len(order)}

(***************************************************************************)
(* buildTree (CallTraceTree.tsx) and buildGasNodes (GasView.tsx)           *)
(***************************************************************************)
\* a.traceAddress[a.traceAddress.length - 1] ?? 0
lastSegmentOf(traceAddress) ==
  IF traceAddress = <<>> THEN 0 ELSE traceAddress[Len(traceAddress)].v

childrenOfDistinct(keys, cbk, lastSegment, key) ==
  LET listed == IF key \in DOMAIN cbk THEN cbk[key] ELSE <<>>
      FirstInMap(i) ==
        /\ listed[i] \in keys
        /\ \A j \in 1..(i - 1) : listed[j] # listed[i]
      kept == SelectSeq([i \in 1..Len(listed) |-> i], FirstInMap)
  IN StableSort([n \in 1..Len(kept) |-> listed[kept[n]]], lastSegment)

\* parent.children: the child keys that resolve to a node, sorted by their
\* last path segment
childrenOf(keys, cbk, lastSegment, key) ==
  LET InMap(c) == c \in keys
  IN IF key \in DOMAIN cbk
     THEN StableSort(SelectSeq(cbk[key], InMap), lastSegment)
     ELSE <<>>

errorDisplayOwnError(error, children, key) ==
  IF Truthy(error[key]) THEN error[key] ELSE Undef

errorDisplayEveryChild(error, children, key) ==
  LET childHasError ==
        /\ Len(children[key]) > 0
        /\ \A i \in 1..Len(children[key]) : Truthy(error[children[key][i]])
  IN IF Truthy(error[key]) /\ ~childHasError THEN error[key] ELSE Undef

\* node.error && !childHasError ? node.error : undefined
errorDisplayOf(error, children, key) ==
  LET childHasError ==
        \E i \in 1..Len(children[key]) : Truthy(error[children[key][i]])
  IN IF Truthy(error[key]) /\ ~childHasError THEN error[key] ELSE Undef

nodesByDepthAsc(order, depth) == StableSort(order, depth)

\* Array.from(nodesByKey.values()).sort((a, b) => b.depth - a.depth)
nodesByDepthDesc(order, depth) ==
  StableSort(order, [k \in DOMAIN depth |-> 0 - depth[k]])

\* subtreeHasErrorDisplay of the first n nodes of `visit`, set in that order;
\* a node not visited yet still reads as undefined
RECURSIVE subtreeFlags(_, _, _, _)
subtreeFlags(visit, n, children, errorDisplay) ==
  IF n = 0 THEN [k \in {} |-> FALSE]
  ELSE LET prev == subtreeFlags(visit, n - 1, children, errorDisplay)
           node == visit[n]
           childHasDisplay ==
             \E i \in 1..Len(children[node]) :
               LET c == children[node][i]
               IN (c \in DOMAIN prev /\ prev[c]) \/ Truthy(errorDisplay[c])
       IN [k \in (DOMAIN prev) \cup {node} |->
             IF k = node THEN Truthy(errorDisplay[node]) \/ childHasDisplay
             ELSE prev[k]]

\* for (const entry of trace) { ... entry.traceAddress ... }: reading a
\* property of null or undefined is a TypeError
Unreadable(tr) == \E i \in 1..Len(tr) : Nullish(tr[i])

buildTree(tr) ==
  IF Unreadable(tr) THEN Threw ELSE
  LET ks == keysOfTrace(tr)
      ps == parentKeysOfTrace(tr)
      order == orderOf(ks, Len(tr))
      keys == KeysOf(order)
      cbk == childrenByKeyOf(ks, ps, Len(tr))
      entry == [k \in keys |-> lastEntryOf(tr, ks, k)]
      traceAddress == [k \in keys |-> traceAddressOf(entry[k])]
      parentKey == [k \in keys |-> parentKeyOf(entry[k])]
      depth == [k \in keys |-> Len(traceAddress[k])]
      lastSegment == [k \in keys |-> lastSegmentOf(traceAddress[k])]
      gasUsedBi == [k \in keys |-> gasOf(entry[k])]
      children == [k \in keys |-> childrenOf(keys, cbk, lastSegment, k)]
      error == [k \in keys |-> errorOf(entry[k])]
      errorDisplay == [k \in keys |-> errorDisplayOf(error, children, k)]
      flags == subtreeFlags(nodesByDepthDesc(order, depth), Len(order),
                            children, errorDisplay)
      IsRoot(k) == parentKey[k] = NoParent
  IN [roots |-> StableSort(SelectSeq(order, IsRoot), depth),
      order |-> order,
      byKey |-> [k \in keys |->
                   [key |-> k,
                    parentKey |-> parentKey[k],
                    traceAddress |-> traceAddress[k],
                    depth |-> depth[k],
                    gasUsedBi |-> gasUsedBi[k],
                    exclusiveGasUsedBi |->
                      exclusive(gasUsedBi[k], SumSeq(children[k], gasUsedBi)),
                    children |-> children[k],
                    error |-> error[k],
                    errorDisplay |-> errorDisplay[k],
                    subtreeHasErrorDisplay |-> flags[k]]]]

buildGasNodes(tr) ==
  IF Unreadable(tr) THEN Threw ELSE
  LET ks == keysOfTrace(tr)
      ps == parentKeysOfTrace(tr)
      order == orderOf(ks, Len(tr))
      keys == KeysOf(order)
      cbk == childrenByKeyOf(ks, ps, Len(tr))
      entry == [k \in keys |-> lastEntryOf(tr, ks, k)]
      gasUsed == [k \in keys |-> gasOf(entry[k])]
      InMap(c) == c \in keys
      childKeys == [k \in keys |->
                      IF k \in DOMAIN cbk THEN SelectSeq(cbk[k], InMap) ELSE <<>>]
  IN [order |-> order,
      byKey |-> [k \in keys |->
                   [key |-> k,
                    parentKey |-> parentKeyOf(entry[k]),
                    traceAddress |-> traceAddressOf(entry[k]),
                    gasUsed |-> gasUsed[k],
                    exclusiveGasUsed |->
                      exclusive(gasUsed[k], SumSeq(childKeys[k], gasUsed))]]]

(***************************************************************************)
(* Traces the builders are run on                                          *)
(***************************************************************************)
\* most entries of a trace
MaxTrace == 3

\* traceAddress of an entry: missing, or a path of call indices
PathChoices ==
  {Undef, Arr(<<>>), Arr(<<Num(0)>>), Arr(<<Num(1)>>), Arr(<<Num(0), Num(0)>>)}

Revert == Str(<<"r", "e", "v", "e", "r", "t", ":", " ", "X">>)

\* gasUsed and error of an entry: a failing frame, a clean frame
ChargeChoices == {<<Num(1), Revert>>, <<Str(<<"0", "x", "3">>), Undef>>}

TraceEntry(path, charge) ==
  Obj(PutDefined(PutDefined(PutDefined(EmptyObj, "traceAddress", path),
                            "gasUsed", charge[1]),
                 "error", charge[2]))

\* a decimal gas string with an empty error string; an unparseable gas string
\* with an error that is not a string
OddEntries ==
  {TraceEntry(Arr(<<Num(0)>>), <<Str(<<" ", "2", " ">>), Str(<<>>)>>),
   TraceEntry(Arr(<<>>), <<Str(<<"0", "x">>), Bool(TRUE)>>)}

EntryChoices ==
  {TraceEntry(p, c) : p \in PathChoices, c \in ChargeChoices} \cup OddEntries

TraceInputs == UNION {[1..n -> EntryChoices] : n \in 0..MaxTrace}

\* short lists that mix entries that are not objects with two frames
MaxRaw == 2

RawEntryChoices ==
  {Null, Undef, Num(7), Str(<<"x">>),
   TraceEntry(Arr(<<>>), <<Num(1), Revert>>),
   TraceEntry(Arr(<<Num(0)>>), <<Str(<<"0", "x", "3">>), Undef>>)}

RawTraceInputs == UNION {[1..n -> RawEntryChoices] : n \in 1..MaxRaw}

InitTree ==
  /\ trace \in TraceInputs \cup RawTraceInputs
  /\ tree = NotRun
  /\ gasNodes = NotRun
  /\ NormalizeIdle
  /\ FlowIdle
  /\ AssetsIdle
  /\ HistoryIdle
  /\ SimulateIdle
  /\ TotalsIdle
  /\ NetFlowIdle
  /\ SendIdle

\* CallTraceTree, rendered by GasView after its own memo:
\* const { roots, byKey } = buildTree(trace)
BuildTree ==
  /\ GasNodesBuilt
  /\ tree = NotRun
  /\ tree' = buildTree(trace)
  /\ UNCHANGED <<trace, gasNodes, outsideTree>>

\* GasView: const nodesByKey = buildGasNodes(simulationTrace)
BuildGasNodes ==
  /\ gasNodes = NotRun
  /\ gasNodes' = buildGasNodes(trace)
  /\ UNCHANGED <<trace, tree, outsideTree>>

NextTree == BuildTree \/ BuildGasNodes

SpecTree == InitTree /\ [][NextTree]_vars

(***************************************************************************)
(* Gas aggregates (GasView.tsx, the totals memo)                           *)
(* Percentages and ratios are kept in hundredths, as the code rounds them. *)
(***************************************************************************)
\* nodes.map((n) => n.exclusiveGasUsed), in the order of the node map
exclusiveGasOf(nodes) ==
  [i \in 1..Len(nodes.order) |-> nodes.byKey[nodes.order[i]].exclusiveGasUsed]

RECURSIVE SumValues(_)
SumValues(values) ==
  IF values = <<>> THEN 0 ELSE Head(values) + SumValues(Tail(values))

\* [...values].sort((a, b) => (a < b ? -1 : a > b ? 1 : 0))
sortAscending(values) ==
  LET byValue == StableSort([i \in 1..Len(values) |-> i], values)
  IN [p \in 1..Len(values) |-> values[byValue[p]]]

\* the middle of a sorted list: mid = Math.floor(sorted.length / 2)
middleOf(sorted) ==
  IF Len(sorted) % 2 = 1 THEN sorted[(Len(sorted) \div 2) + 1]
  ELSE (sorted[Len(sorted) \div 2] + sorted[(Len(sorted) \div 2) + 1]) \div 2

median(values) == IF Len(values) = 0 THEN 0 ELSE middleOf(sortAscending(values))

\* values.reduce((m, v) => (v > m ? v : m), 0n)
RECURSIVE maxOf(_)
maxOf(values) ==
  IF values = <<>> THEN 0
  ELSE IF Head(values) > maxOf(Tail(values)) THEN Head(values)
  ELSE maxOf(Tail(values))

IsPositive(v) == v > 0

totalGasPreferExecution(gasUsedBi, executionGas) ==
  IF executionGas > 0 THEN executionGas
  ELSE IF gasUsedBi.t = "num" THEN gasUsedBi.v ELSE 0

\* typeof simulationGasUsedBi === "bigint" && simulationGasUsedBi > 0n
\*   ? simulationGasUsedBi : executionGas
totalGasOf(gasUsedBi, executionGas) ==
  IF gasUsedBi.t = "num" /\ gasUsedBi.v > 0 THEN gasUsedBi.v ELSE executionGas

\* totalGas > executionGas ? totalGas - executionGas : 0n
overheadGasOf(totalGas, executionGas) ==
  IF totalGas > executionGas THEN totalGas - executionGas ELSE 0

\* totalGas > 0n ? Number((overheadGas * 10000n) / totalGas) / 100 : 0
overheadPctOf(overheadGas, totalGas) ==
  IF totalGas > 0 THEN (overheadGas * 10000) \div totalGas ELSE 0

\* p50 > 0n ? Number((maxExclusive * 100n) / p50) / 100 : 0
maxVsMedianOf(maxExclusive, p50) ==
  IF p50 > 0 THEN (maxExclusive * 100) \div p50 ELSE 0

executionGasOfInclusive(nodes) ==
  SumValues([i \in 1..Len(nodes.order) |-> nodes.byKey[nodes.order[i]].gasUsed])

\* nodes.reduce((sum, n) => sum + n.exclusiveGasUsed, 0n)
executionGasOf(nodes) == SumValues(exclusiveGasOf(nodes))

totalsWith(executionGas, totalGas, exclusiveNonZero) ==
  [executionGas |-> executionGas,
   totalGas |-> totalGas,
   overheadGas |-> overheadGasOf(totalGas, executionGas),
   overheadPct |-> overheadPctOf(overheadGasOf(totalGas, executionGas), totalGas),
   p50 |-> median(exclusiveNonZero),
   maxExclusive |-> maxOf(exclusiveNonZero),
   maxVsMedian |-> maxVsMedianOf(maxOf(exclusiveNonZero), median(exclusiveNonZero))]

totalsFrom(executionGas, gasUsedBi, exclusiveValues) ==
  totalsWith(executionGas, totalGasOf(gasUsedBi, executionGas),
             SelectSeq(exclusiveValues, IsPositive))

\* the totals memo of GasView
totalsOf(nodes, gasUsedBi) ==
  totalsFrom(executionGasOf(nodes), gasUsedBi, exclusiveGasOf(nodes))

(***************************************************************************)
(* Traces and gas figures the aggregates are computed on                   *)
(***************************************************************************)
\* largest gas figure of a frame
MaxGas == 3

\* the frames a trace may hold: the root, two calls of it, a nested call
GasPaths == <<Arr(<<>>), Arr(<<Num(0)>>), Arr(<<Num(1)>>), Arr(<<Num(0), Num(0)>>)>>

GasEntry(path, gas) ==
  Obj([k \in {"traceAddress", "gasUsed"} |-> IF k = "gasUsed" THEN gas ELSE path])

\* the frames that an assignment of gas to paths lists (-1: the frame is absent)
GasTraceOf(g) ==
  LET present == SelectSeq(<<1, 2, 3, 4>>, LAMBDA i : g[i] >= 0)
  IN [p \in 1..Len(present) |-> GasEntry(GasPaths[present[p]], Num(g[present[p]]))]

\* root 0x64 = 100 with one child 0x32 = 50
ScenarioTrace ==
  <<GasEntry(GasPaths[1], Str(<<"0", "x", "6", "4">>)),
    GasEntry(GasPaths[2], Str(<<"0", "x", "3", "2">>))>>

GasTraces ==
  {GasTraceOf(g) : g \in [1..4 -> -1..MaxGas]} \cup {ScenarioTrace}

\* the top-level gasUsed of the canonical result, with the figure it states
\* (-1 when it states none)
GasUsedTable ==
  {[raw |-> Undef, figure |-> -1],
   [raw |-> Str(<<"n", "/", "a">>), figure |-> -1],
   [raw |-> Num(0), figure |-> 0],
   [raw |-> Num(2), figure |-> 2],
   [raw |-> Str(<<"0", "x", "6", "4">>), figure |-> 100]}

InitTotals ==
  /\ trace \in GasTraces
  /\ tree = NotRun
  /\ gasNodes = NotRun
  /\ simulationGasUsed \in {row.raw : row \in GasUsedTable}
  /\ totals = NotRun
  /\ NormalizeIdle
  /\ FlowIdle
  /\ AssetsIdle
  /\ HistoryIdle
  /\ SimulateIdle
  /\ NetFlowIdle
  /\ SendIdle

\* GasView: the totals memo, from the node map and
\* simulationGasUsedBi = hexToBigIntSafe(simulationResult?.gasUsed)
ComputeTotals ==
  /\ GasNodesBuilt
  /\ totals = NotRun
  /\ totals' = totalsOf(gasNodes, hexToBigIntSafe(simulationGasUsed))
  /\ UNCHANGED <<simulationGasUsed, outsideTotals>>

NextTotals == BuildGasNodes \/ ComputeTotals

SpecTotals == InitTotals /\ [][NextTotals]_vars

(***************************************************************************)
(* Flow series sampling (AssetsView.tsx)                                   *)
(***************************************************************************)
downsampleInclusiveLoop(values, maxPoints) ==
  IF Len(values) <= maxPoints THEN values
  ELSE [i \in 1..(maxPoints + 1) |->
          LET index == ((i - 1) * Len(values)) \div maxPoints
          IN IF index < Len(values) THEN values[index + 1] ELSE 0]

\* out.push(values[Math.floor(i * step)] ?? 0) for i = 0 .. maxPoints - 1,
\* with step = values.length / maxPoints
downsample(values, maxPoints) ==
  IF Len(values) <= maxPoints THEN values
  ELSE [i \in 1..maxPoints |->
          LET index == ((i - 1) * Len(values)) \div maxPoints
          IN IF index < Len(values) THEN values[index + 1] ELSE 0]

\* downsample(lastN, 60)
FlowMaxPoints == 60

FlowRanges == {"30", "100", "all"}

\* Number.parseInt(flowRange, 10)
parseFlowRange(range) == IF range = "30" THEN 30 ELSE 100

\* points.slice(-n)
sliceLast(points, n) ==
  IF Len(points) <= n THEN points
  ELSE SubSeq(points, Len(points) - n + 1, Len(points))

flowValuesForRange(points, range) ==
  IF Len(points) = 0 THEN <<>>
  ELSE LET lastN == IF range = "all" THEN points
                    ELSE sliceLast(points, parseFlowRange(range))
       IN downsample(lastN, FlowMaxPoints)

\* longest series of arbitrary points, largest point budget
MaxSeries == 5
MaxPoints == 4

PointChoices == {0 - 1, 0, 7}

\* a series whose points are pairwise distinct
Ramp(n) == [i \in 1..n |-> 10 * i - 25]

\* lengths around the range sizes and the point budget of the flow chart
RampLengths == {29, 30, 31, 59, 60, 61, 62, 90, 99, 100, 101, 119, 120, 121, 130}

SeriesInputs ==
  UNION {[1..n -> PointChoices] : n \in 0..MaxSeries}
    \cup {Ramp(n) : n \in 0..(2 * MaxSeries)}
    \cup {Ramp(n) : n \in RampLengths}

InitFlow ==
  /\ series \in SeriesInputs
  /\ pointBudget \in 1..MaxPoints
  /\ sampled = NotRun
  /\ flowRange = "30"
  /\ flowValues = NotRun
  /\ NormalizeIdle
  /\ TreeIdle
  /\ AssetsIdle
  /\ HistoryIdle
  /\ SimulateIdle
  /\ TotalsIdle
  /\ NetFlowIdle
  /\ SendIdle

\* downsample(series, pointBudget)
Downsample ==
  /\ sampled = NotRun
  /\ sampled' = [points |-> downsample(series, pointBudget)]
  /\ UNCHANGED <<series, pointBudget, flowRange, flowValues, outsideFlow>>

\* the flowValuesForRange memo on the first render
RenderFlow ==
  /\ flowValues = NotRun
  /\ flowValues' = [points |-> flowValuesForRange(series, flowRange)]
  /\ UNCHANGED <<series, pointBudget, sampled, flowRange, outsideFlow>>

\* setFlowRange(range), then the memo is recomputed
SetFlowRange ==
  /\ flowValues # NotRun
  /\ \E range \in FlowRanges \ {flowRange} :
       /\ flowRange' = range
       /\ flowValues' = [points |-> flowValuesForRange(series, range)]
  /\ UNCHANGED <<series, pointBudget, sampled, outsideFlow>>

NextFlow == Downsample \/ RenderFlow \/ SetFlowRange

SpecFlow == InitFlow /\ [][NextFlow]_vars

(***************************************************************************)
(* Flow aggregates (AssetsView.tsx, stats)                                 *)
(* USD amounts are kept in hundredths of a dollar.                         *)
(***************************************************************************)
NaN == [t |-> "nan"]
Infinite == [t |-> "inf"]

\* v.replace(/,/g, "")
removeCommas(cs) == LET NotComma(c) == c # "," IN SelectSeq(cs, NotComma)

\* length of the longest prefix of cs made of decimal digits
RECURSIVE LeadingDigits(_)
LeadingDigits(cs) ==
  IF cs = <<>> \/ ~IsDecDigit(Head(cs)) THEN 0 ELSE 1 + LeadingDigits(Tail(cs))

RECURSIVE trimStart(_)
trimStart(cs) ==
  IF cs # <<>> /\ Head(cs) = " " THEN trimStart(Tail(cs)) ELSE cs

IsPrefix(a, b) == Len(a) <= Len(b) /\ SubSeq(b, 1, Len(a)) = a

\* Number.parseFloat, for decimal literals without exponent and with at most
\* two fraction digits: leading blanks, a sign, digits, a fraction; whatever
\* follows the number is ignored
parseFloat(cs) ==
  LET s == trimStart(cs)
      negative == s # <<>> /\ Head(s) = "-"
      signed == s # <<>> /\ Head(s) \in {"-", "+"}
      body == IF signed THEN Tail(s) ELSE s
      ni == LeadingDigits(body)
      afterInt == SubSeq(body, ni + 1, Len(body))
      hasPoint == afterInt # <<>> /\ Head(afterInt) = "."
      nf == IF hasPoint THEN LeadingDigits(Tail(afterInt)) ELSE 0
      fraction == IF nf = 0 THEN <<>> ELSE SubSeq(afterInt, 2, nf + 1)
      hundredths ==
        IF nf = 0 THEN 0
        ELSE IF nf = 1 THEN 10 * DigitsToInt(fraction, 10)
        ELSE DigitsToInt(SubSeq(fraction, 1, 2), 10)
      magnitude == 100 * DigitsToInt(SubSeq(body, 1, ni), 10) + hundredths
  IN IF IsPrefix(<<"I", "n", "f", "i", "n", "i", "t", "y">>, body) THEN Infinite
     ELSE IF ni = 0 /\ nf = 0 THEN NaN
     ELSE Num(IF negative THEN 0 - magnitude ELSE magnitude)

\* parseUsd: a number (in hundredths), undefined, or a TypeError when v is
\* truthy and has no replace method
parseUsd(v) ==
  IF ~Truthy(v) THEN Undef
  ELSE IF v.t # "str" THEN Threw
  ELSE LET n == parseFloat(removeCommas(v.v))
       IN IF n.t = "num" THEN n ELSE Undef

\* typeof v === "string" && v.trim().length ? v.trim() : undefined
safeText(v) ==
  IF v.t = "str" /\ Len(trim(v.v)) # 0 THEN Str(trim(v.v)) ELSE Undef

LowerOf(c) ==
  IF \E i \in 1..6 : UpperHexDigits[i] = c
  THEN HexDigits[10 + CHOOSE i \in 1..6 : UpperHexDigits[i] = c]
  ELSE c

toLowerCaseSkipped(v) == v

\* v?.toLowerCase(), over the characters of addresses
toLowerCase(v) ==
  IF v = Undef THEN Undef ELSE Str([i \in 1..Len(v.v) |-> LowerOf(v.v[i])])

Abs(n) == IF n < 0 THEN 0 - n ELSE n

\* change.assetInfo?.symbol
assetField(change, key) ==
  LET info == Get(Fields(change), "assetInfo")
  IN IF Nullish(info) THEN Undef ELSE Get(Fields(info), key)

\* the accumulators before the first change
EmptyStats ==
  [threw |-> FALSE, receivedUsd |-> 0, sentUsd |-> 0, totalVolumeUsd |-> 0,
   participantOrder |-> <<>>, byParticipant |-> [k \in {} |-> 0],
   tokenOrder |-> <<>>, byToken |-> [k \in {} |-> 0],
   flowPoints |-> <<>>, cumulativeNet |-> 0]

\* byParticipant.get(key) ?? { address, inUsd: 0, outUsd: 0 }
participantOrNew(byParticipant, key, address) ==
  IF key \in DOMAIN byParticipant THEN byParticipant[key]
  ELSE [address |-> address, inUsd |-> 0, outUsd |-> 0]

\* byToken.get(key) ?? { key, symbol: symbol || key, name, logo, usd: 0, count: 0 }
tokenOrNew(byToken, key) ==
  IF key \in DOMAIN byToken THEN byToken[key] ELSE [usd |-> 0, count |-> 0]

creditRecipientOnly(acc, from, to, usd) ==
  LET toLower == toLowerCase(to)
      recipient == participantOrNew(acc.byParticipant, toLower.v, to.v)
  IN IF toLower # Undef
     THEN [acc EXCEPT
             !.byParticipant = Put(acc.byParticipant, toLower.v,
                                   [recipient EXCEPT !.inUsd = recipient.inUsd + usd]),
             !.participantOrder = MapSet(acc.participantOrder, toLower.v)]
     ELSE acc

\* the two "if (fromLower) ..." / "if (toLower) ..." blocks of the loop
creditParticipants(acc, from, to, usd) ==
  LET fromLower == toLowerCase(from)
      toLower == toLowerCase(to)
      sender == participantOrNew(acc.byParticipant, fromLower.v, from.v)
      afterFrom ==
        IF fromLower # Undef
        THEN [acc EXCEPT
                !.byParticipant = Put(acc.byParticipant, fromLower.v,
                                      [sender EXCEPT !.outUsd = sender.outUsd + usd]),
                !.participantOrder = MapSet(acc.participantOrder, fromLower.v)]
        ELSE acc
      recipient == participantOrNew(afterFrom.byParticipant, toLower.v, to.v)
  IN IF toLower # Undef
     THEN [afterFrom EXCEPT
             !.byParticipant = Put(afterFrom.byParticipant, toLower.v,
                                   [recipient EXCEPT !.inUsd = recipient.inUsd + usd]),
             !.participantOrder = MapSet(afterFrom.participantOrder, toLower.v)]
     ELSE afterFrom

\* symbol || name || "Unknown"
tokenKeyOf(change) ==
  LET symbol == safeText(assetField(change, "symbol"))
      name == safeText(assetField(change, "name"))
  IN IF symbol # Undef THEN symbol.v
     ELSE IF name # Undef THEN name.v
     ELSE <<"U", "n", "k", "n", "o", "w", "n">>

creditToken(acc, change, usd) ==
  LET key == tokenKeyOf(change)
      token == tokenOrNew(acc.byToken, key)
  IN [acc EXCEPT
        !.byToken = Put(acc.byToken, key,
                        [usd |-> token.usd + usd, count |-> token.count + 1]),
        !.tokenOrder = MapSet(acc.tokenOrder, key)]

\* flowPoints.push(...): the running net flow of the actor, or the amount
recordPoint(acc, actorLower, delta, usd) ==
  IF actorLower # Undef
  THEN [acc EXCEPT
          !.cumulativeNet = acc.cumulativeNet + delta,
          !.flowPoints = Append(acc.flowPoints, acc.cumulativeNet + delta)]
  ELSE [acc EXCEPT !.flowPoints = Append(acc.flowPoints, usd)]

\* the totals of the actor, given on which side of the change the actor is
creditActor(acc, isSender, isRecipient, usd) ==
  [acc EXCEPT
     !.totalVolumeUsd = acc.totalVolumeUsd + usd,
     !.sentUsd = IF isSender THEN acc.sentUsd + usd ELSE acc.sentUsd,
     !.receivedUsd = IF isRecipient THEN acc.receivedUsd + usd ELSE acc.receivedUsd]

netDelta(isSender, isRecipient, usd) ==
  (IF isRecipient THEN usd ELSE 0) - (IF isSender THEN usd ELSE 0)

\* the body of the loop for a change of magnitude usd between from and to
creditChange(acc, change, actorLower, usd, from, to, isSender, isRecipient) ==
  recordPoint(
    creditToken(
      creditParticipants(creditActor(acc, isSender, isRecipient, usd), from, to, usd),
      change, usd),
    actorLower, netDelta(isSender, isRecipient, usd), usd)

creditBetween(acc, change, actorLower, usd, from, to) ==
  creditChange(acc, change, actorLower, usd, from, to,
               actorLower # Undef /\ toLowerCase(from) = actorLower,
               actorLower # Undef /\ toLowerCase(to) = actorLower)

\* const usdRaw = parseUsd(change.dollarValue); if (!usd) continue;
creditParsed(acc, change, actorLower, usdRaw) ==
  IF usdRaw = Threw THEN [acc EXCEPT !.threw = TRUE]
  ELSE IF usdRaw = Undef THEN acc
  ELSE IF Abs(usdRaw.v) <= 0 THEN acc
  ELSE creditBetween(acc, change, actorLower, Abs(usdRaw.v),
                     safeText(Get(Fields(change), "from")),
                     safeText(Get(Fields(change), "to")))

\* one iteration of "for (const change of assetsFiltered)"
statsStep(acc, change, actorLower) ==
  IF acc.threw THEN acc
  ELSE creditParsed(acc, change, actorLower,
                    parseUsd(Get(Fields(change), "dollarValue")))

RECURSIVE statsLoop(_, _, _)
statsLoop(changes, actorLower, n) ==
  IF n = 0 THEN EmptyStats
  ELSE statsStep(statsLoop(changes, actorLower, n - 1), changes[n], actorLower)

\* what the memo returns once the loop has ended with the accumulators acc
statsFrom(acc, actorLower) ==
  IF acc.threw THEN Threw
  ELSE
    LET row(key) ==
          [key |-> key,
           address |-> acc.byParticipant[key].address,
           inUsd |-> acc.byParticipant[key].inUsd,
           outUsd |-> acc.byParticipant[key].outUsd,
           netUsd |-> acc.byParticipant[key].inUsd - acc.byParticipant[key].outUsd,
           volumeUsd |-> acc.byParticipant[key].inUsd + acc.byParticipant[key].outUsd]
        byVolume ==
          StableSort(acc.participantOrder,
                     [k \in DOMAIN acc.byParticipant |->
                        0 - (acc.byParticipant[k].inUsd + acc.byParticipant[k].outUsd)])
        NotActor(key) == actorLower = Undef \/ key # actorLower.v
        byUsd ==
          StableSort(acc.tokenOrder,
                     [k \in DOMAIN acc.byToken |-> 0 - acc.byToken[k].usd])
    IN [t |-> "stats",
        receivedUsd |-> acc.receivedUsd,
        sentUsd |-> acc.sentUsd,
        netUsd |-> IF actorLower # Undef THEN acc.receivedUsd - acc.sentUsd ELSE 0,
        totalVolumeUsd |-> acc.totalVolumeUsd,
        flowPoints |-> acc.flowPoints,
        tokenRows |-> [i \in 1..Len(byUsd) |->
                         [key |-> byUsd[i],
                          usd |-> acc.byToken[byUsd[i]].usd,
                          count |-> acc.byToken[byUsd[i]].count]],
        participantRows |->
          LET kept == SelectSeq(byVolume, NotActor)
          IN [i \in 1..Len(kept) |-> row(kept[i])],
        byParticipant |-> acc.byParticipant]

\* the loop run with the lower-cased actor
statsFor(changes, actorLower) ==
  statsFrom(statsLoop(changes, actorLower, Len(changes)), actorLower)

\* the stats memo of AssetsView; byParticipant is the ledger the rows are
\* made from
statsOf(changes, actor) == statsFor(changes, toLowerCase(safeText(actor)))

(***************************************************************************)
(* Batches of asset changes the aggregates are computed on                 *)
(***************************************************************************)
\* most asset changes of a batch
MaxChanges == 3

AssetChange(from, to, dollarValue, symbol) ==
  Obj(PutDefined(PutDefined(PutDefined(PutDefined(EmptyObj, "from", from),
                                       "to", to),
                            "dollarValue", dollarValue),
                 "assetInfo",
                 IF symbol = Undef THEN Undef
                 ELSE Obj([k \in {"symbol"} |-> symbol])))

\* the records of a batch, each with what it stands for: the sender and the
\* recipient ("-" when the record names none), the USD magnitude in
\* hundredths (0 when the record carries no parseable amount), the token it
\* is listed under and what its USD value is
ChangeTable ==
  {[change |-> AssetChange(Str(<<"0", "x", "A">>), Str(<<"0", "x", "B">>),
                           Str(<<"1", "0", "0">>), Str(<<"U", "S", "D">>)),
    from |-> "A", to |-> "B", usd |-> 10000,
    token |-> "USD", value |-> "valued"],
   [change |-> AssetChange(Str(<<"0", "x", "b">>), Str(<<"0", "x", "a">>),
                           Str(<<"4", "0">>), Str(<<"U", "S", "D">>)),
    from |-> "B", to |-> "A", usd |-> 4000,
    token |-> "USD", value |-> "valued"],
   [change |-> AssetChange(Null, Str(<<"0", "x", "A">>),
                           Str(<<" ", "7">>), Undef),
    from |-> "-", to |-> "A", usd |-> 700,
    token |-> "Unknown", value |-> "valued"],
   [change |-> AssetChange(Str(<<"0", "x", "B">>), Str(<<" ", " ">>),
                           Str(<<"-", "5">>), Str(<<"E", "T", "H">>)),
    from |-> "B", to |-> "-", usd |-> 500,
    token |-> "ETH", value |-> "valued"],
   [change |-> AssetChange(Str(<<" ", "0", "x", "a", " ">>), Str(<<"0", "x", "c">>),
                           Str(<<"1", ",", "0", "0", "0", ".", "5">>), Str(<<" ">>)),
    from |-> "A", to |-> "C", usd |-> 100050,
    token |-> "Unknown", value |-> "valued"],
   [change |-> AssetChange(Str(<<"0", "x", "A">>), Str(<<"0", "x", "B">>),
                           Undef, Str(<<"U", "S", "D">>)),
    from |-> "A", to |-> "B", usd |-> 0,
    token |-> "USD", value |-> "absent"],
   [change |-> AssetChange(Str(<<"0", "x", "B">>), Str(<<"0", "x", "A">>),
                           Str(<<"$", "9">>), Str(<<"E", "T", "H">>)),
    from |-> "B", to |-> "A", usd |-> 0,
    token |-> "ETH", value |-> "unparsable"],
   [change |-> AssetChange(Str(<<"0", "x", "A">>), Str(<<"0", "x", "c">>),
                           Str(<<"0", ".", "0">>), Str(<<"E", "T", "H">>)),
    from |-> "A", to |-> "C", usd |-> 0,
    token |-> "ETH", value |-> "zero"]}

\* a record whose USD value arrives as a JSON number
NumericValueChange ==
  AssetChange(Str(<<"0", "x", "A">>), Str(<<"0", "x", "B">>), Num(3), Undef)

ChangeChoices == {row.change : row \in ChangeTable} \cup {NumericValueChange}

AssetBatches == UNION {[1..n -> ChangeChoices] : n \in 0..MaxChanges}

\* the actorAddress prop, with the participant it names
ActorTable ==
  {[actor |-> Undef, name |-> "-"],
   [actor |-> Str(<<" ">>), name |-> "-"],
   [actor |-> Str(<<"0", "x", "A">>), name |-> "A"],
   [actor |-> Str(<<"0", "x", "b">>), name |-> "B"]}

InitAssets ==
  /\ assetChanges \in AssetBatches
  /\ actorAddress \in {row.actor : row \in ActorTable}
  /\ stats = NotRun
  /\ NormalizeIdle
  /\ TreeIdle
  /\ FlowIdle
  /\ HistoryIdle
  /\ SimulateIdle
  /\ TotalsIdle
  /\ NetFlowIdle
  /\ SendIdle

\* const stats = useMemo(...)
ComputeStats ==
  /\ stats = NotRun
  /\ stats' = statsOf(assetChanges, actorAddress)
  /\ UNCHANGED <<assetChanges, actorAddress, outsideAssets>>

NextAssets == ComputeStats

SpecAssets == InitAssets /\ [][NextAssets]_vars

(***************************************************************************)
(* Net flow by participant (AssetsView.tsx, the netFlowData memo)          *)
(* Net amounts are in hundredths of a dollar.                              *)
(***************************************************************************)
\* Math.abs(p.netUsd) > 0.01
NetEpsilon == 1

\* gainers.length + losers.length <= 12
MaxShown == 12

\* gainers.slice(0, 6), losers.slice(-6)
SideShown == 6

IsNonTrivial(p) == Abs(p.netUsd) > NetEpsilon
IsGainer(p) == p.netUsd > 0
IsLoser(p) == p.netUsd < 0

\* rows.sort((a, b) => b.netUsd - a.netUsd)
sortByNetDesc(rows) ==
  LET ahead(i) == {j \in 1..Len(rows) :
                     \/ rows[j].netUsd > rows[i].netUsd
                     \/ (rows[j].netUsd = rows[i].netUsd /\ j < i)}
  IN [p \in 1..Len(rows) |->
        rows[CHOOSE i \in 1..Len(rows) : Cardinality(ahead(i)) = p - 1]]

\* rows.slice(0, n)
sliceFirst(rows, n) == SubSeq(rows, 1, IF Len(rows) < n THEN Len(rows) ELSE n)

sliceFromStart(rows, n) == SubSeq(rows, 1, IF Len(rows) < n THEN Len(rows) ELSE n)

\* rows.slice(-n)
sliceFromEnd(rows, n) ==
  SubSeq(rows, IF Len(rows) < n THEN 1 ELSE Len(rows) - n + 1, Len(rows))

\* data = sorted, or [...gainers.slice(0, 6), ...losers.slice(-6)]
selectShown(sorted, gainers, losers) ==
  IF Len(gainers) + Len(losers) <= MaxShown THEN sorted
  ELSE sliceFirst(gainers, SideShown) \o sliceFromEnd(losers, SideShown)

\* data.map((p) => ({ address, name, net: p.netUsd }))
shownAs(data) ==
  [i \in 1..Len(data) |-> [address |-> data[i].address, net |-> data[i].netUsd]]

\* if (!sorted.length) return []; ...; return data.map(...)
netFlowFrom(rows) ==
  IF Len(rows) = 0 THEN <<>>
  ELSE shownAs(selectShown(rows, SelectSeq(rows, IsGainer),
                           SelectSeq(rows, IsLoser)))

(***************************************************************************)
(* Participant rows the selection is made from                             *)
(***************************************************************************)
\* most participants on one side of the ledger
MaxSide == 8

\* participant n of a list of g gainers, l losers and t participants whose
\* net is within the epsilon; with ties, neighbours share their net
NetOf(n, g, l, ties) ==
  IF n <= g THEN 100 * (IF ties THEN (n + 1) \div 2 ELSE n)
  ELSE IF n <= g + l THEN 0 - 100 * (IF ties THEN (n - g + 1) \div 2 ELSE n - g)
  ELSE (n - g - l) - 2

\* the rows in the order of the participants, turned by `shift`
RowsOf(g, l, t, ties, shift) ==
  [i \in 1..(g + l + t) |->
     LET n == ((i - 1 + shift) % (g + l + t)) + 1
     IN [address |-> n, netUsd |-> NetOf(n, g, l, ties)]]

RowLists ==
  {RowsOf(g, l, t, ties, shift) :
     g \in 0..MaxSide, l \in 0..MaxSide, t \in 0..3, ties \in BOOLEAN,
     shift \in {0, 5}}

InitNetFlow ==
  /\ participantRows \in RowLists
  /\ sortedRows = <<>>
  /\ netFlowData = NotRun
  /\ NormalizeIdle
  /\ TreeIdle
  /\ FlowIdle
  /\ AssetsIdle
  /\ HistoryIdle
  /\ SimulateIdle
  /\ TotalsIdle
  /\ SendIdle

\* const netFlowData = useMemo(...)
ComputeNetFlow ==
  /\ netFlowData = NotRun
  /\ sortedRows' = sortByNetDesc(SelectSeq(participantRows, IsNonTrivial))
  /\ netFlowData' = [shown |-> netFlowFrom(sortedRows')]
  /\ UNCHANGED <<participantRows, outsideNetFlow>>

NextNetFlow == ComputeNetFlow

SpecNetFlow == InitNetFlow /\ [][NextNetFlow]_vars

(***************************************************************************)
(* History feed (App): saved simulations from the service merged with the  *)
(* executions kept locally.  Times are in units of 10^5 ms, so that epoch   *)
(* milliseconds fit the integers of the model checker.                      *)
(***************************************************************************)
\* v < 10_000_000_000, in units of 10^5
SecondsCeiling == 100000

\* ...prev.filter(...).slice(0, 49)
KeptOnAppend == 49

\* days from 1970-01-01 to the first day of year y
DaysToYear(y) ==
  365 * (y - 1970)
    + ((y - 1) \div 4 - (y - 1) \div 100 + (y - 1) \div 400) - 477

\* Date.parse for a four-digit year ("1971" is 1971-01-01T00:00:00Z); any
\* other text of the model is not a date
DateParse(cs) ==
  IF Len(cs) = 4 /\ IsDecLiteral(cs) THEN Num(864 * DaysToYear(DigitsToInt(cs, 10)))
  ELSE NaN

\* typeof v === "string" && v.trim().length ? v.trim() : undefined
safeString(v) ==
  IF v.t = "str" /\ Len(trim(v.v)) # 0 THEN Str(trim(v.v)) ELSE Undef

parseTimestampMs(v) ==
  IF v.t = "num" THEN Num(IF v.v < SecondsCeiling THEN v.v * 1000 ELSE v.v)
  ELSE IF v.t = "str" /\ Len(trim(v.v)) # 0
       THEN (IF DateParse(v.v).t = "num" THEN DateParse(v.v) ELSE Undef)
  ELSE Undef

\* a || b
Or(a, b) == IF Truthy(a) THEN a ELSE b

\* obj.key && typeof obj.key === "object" ? obj.key : obj
nestedOrSelf(obj, key) ==
  LET inner == Get(obj, key)
  IN IF Truthy(inner) /\ TypeofObject(inner) THEN Fields(inner) ELSE obj

toHistoryItemKeepAll(item, clock) ==
  [type |-> "simulation", simulationId |-> Undef, from |-> Undef, to |-> Undef,
   timestamp |-> clock, status |-> "unknown"]

\* toHistoryItem: a history item, or Null for a record that is left out
toHistoryItem(item, clock) ==
  IF ~Truthy(item) \/ ~TypeofObject(item) THEN Null
  ELSE
    LET obj == Fields(item)
        sim == nestedOrSelf(obj, "simulation")
        tx == nestedOrSelf(obj, "transaction")
        simulationId == Or(Or(safeString(Get(obj, "id")), safeString(Get(sim, "id"))),
                           safeString(Get(obj, "simulationId")))
        createdAt == Or(Or(safeString(Get(sim, "created_at")),
                           safeString(Get(obj, "created_at"))),
                        safeString(Get(obj, "createdAt")))
        timestamp == Or(Or(Or(parseTimestampMs(createdAt),
                              parseTimestampMs(Get(obj, "timestamp"))),
                           parseTimestampMs(Get(sim, "created_at"))),
                        Num(clock))
        from == Or(safeString(Get(tx, "from")), safeString(Get(sim, "from")))
        to == Or(safeString(Get(tx, "to")), safeString(Get(sim, "to")))
        statusBool == IF Get(sim, "status").t = "bool" THEN Get(sim, "status")
                      ELSE IF Get(obj, "status").t = "bool" THEN Get(obj, "status")
                      ELSE Undef
    IN IF ~Truthy(simulationId) THEN Null
       ELSE IF ~Truthy(to) THEN Null
       ELSE [type |-> "simulation",
             simulationId |-> simulationId,
             from |-> from,
             to |-> to,
             timestamp |-> timestamp.v,
             status |-> IF statusBool = Bool(TRUE) THEN "success"
                        ELSE IF statusBool = Bool(FALSE) THEN "reverted"
                        ELSE "unknown"]

\* raw.map(toHistoryItem).filter(Boolean)
convertSaved(raw, clock) ==
  LET Kept(x) == x # Null
  IN SelectSeq([i \in 1..Len(raw) |-> toHistoryItem(raw[i], clock)], Kept)

IsExecution(h) == h.type = "execution"

\* the first n items sorted by (a, b) => b.timestamp - a.timestamp; the sort is
\* stable: an item goes behind every item that is not older
RECURSIVE sortNewestFirst(_, _)
sortNewestFirst(items, n) ==
  IF n = 0 THEN <<>>
  ELSE LET sorted == sortNewestFirst(items, n - 1)
           x == items[n]
           ahead == Cardinality({i \in 1..Len(sorted) :
                                   sorted[i].timestamp >= x.timestamp})
       IN SubSeq(sorted, 1, ahead) \o <<x>> \o SubSeq(sorted, ahead + 1, Len(sorted))

mergeSimulationsOnly(data, execs) ==
  LET sims == IF data = NotRun THEN <<>> ELSE data.items
  IN sortNewestFirst(sims, Len(sims))

\* historyData: [...sims, ...execs].sort((a, b) => b.timestamp - a.timestamp),
\* with sims = savedSimulationsQuery.data ?? []
mergeHistory(data, execs) ==
  LET sims == IF data = NotRun THEN <<>> ELSE data.items
      all == sims \o SelectSeq(execs, IsExecution)
  IN sortNewestFirst(all, Len(all))

appendUncapped(prev, record) == <<record>> \o SelectSeq(prev, IsExecution)

\* [record, ...prev.filter((h) => h.type === "execution").slice(0, 49)]
appendExecution(prev, record) ==
  LET execs == SelectSeq(prev, IsExecution)
  IN <<record>> \o SubSeq(execs, 1, IF Len(execs) < KeptOnAppend
                                    THEN Len(execs) ELSE KeptOnAppend)

(***************************************************************************)
(* Saved-simulation lists and executions the feed is built from            *)
(***************************************************************************)
\* most records of the list the service returns
MaxRemote == 2
\* most executions recorded when the service returned records, and when it
\* returned none
MaxMergedExecutions == 2
MaxExecutions == 52

\* Date.now() when the app starts, in units of 10^5 ms
ClockStart == 170 * 100000

Text2(a, b) == Str(<<a, b>>)
Address(c) == Str(<<"0", "x", c>>)

\* the records of a list, each with what it stands for: whether it can be
\* shown, its identifier and destination, and its time ("clock" when the record
\* gives none that counts)
RemoteTable ==
  {[record |-> Obj([k \in {"id", "to", "created_at"} |->
                      CASE k = "id" -> Text2("s", "1")
                        [] k = "to" -> Address("B")
                        [] OTHER -> Str(<<"1", "9", "7", "1">>)]),
    valid |-> TRUE, id |-> <<"s", "1">>, to |-> <<"0", "x", "B">>],
   [record |-> Obj([k \in {"simulation", "timestamp"} |->
                      IF k = "timestamp" THEN Num(ClockStart + 1)
                      ELSE Obj([j \in {"id", "to", "status"} |->
                                  CASE j = "id" -> Text2("s", "2")
                                    [] j = "to" -> Address("C")
                                    [] OTHER -> Bool(TRUE)])]),
    valid |-> TRUE, id |-> <<"s", "2">>, to |-> <<"0", "x", "C">>],
   [record |-> Obj([k \in {"simulationId", "transaction", "timestamp"} |->
                      CASE k = "simulationId" -> Text2("s", "3")
                        [] k = "timestamp" -> Num(0)
                        [] OTHER -> Obj([j \in {"to"} |->
                                           Str(<<" ", "0", "x", "D", " ">>)])]),
    valid |-> TRUE, id |-> <<"s", "3">>, to |-> <<"0", "x", "D">>],
   [record |-> Obj([k \in {"id", "to", "timestamp"} |->
                      CASE k = "id" -> Text2("s", "4")
                        [] k = "to" -> Address("B")
                        [] OTHER -> Num(17)]),
    valid |-> TRUE, id |-> <<"s", "4">>, to |-> <<"0", "x", "B">>],
   [record |-> Obj([k \in {"id", "to"} |->
                      IF k = "id" THEN Num(7) ELSE Address("B")]),
    valid |-> FALSE, id |-> <<>>, to |-> <<>>],
   [record |-> Obj([k \in {"id", "transaction", "simulation"} |->
                      CASE k = "id" -> Text2("s", "6")
                        [] k = "transaction" -> Obj([j \in {"from"} |-> Address("A")])
                        [] OTHER -> Obj([j \in {"status"} |-> Bool(FALSE)])]),
    valid |-> FALSE, id |-> <<>>, to |-> <<>>],
   [record |-> Null, valid |-> FALSE, id |-> <<>>, to |-> <<>>],
   [record |-> Text2("s", "8"), valid |-> FALSE, id |-> <<>>, to |-> <<>>],
   [record |-> Arr(<<Obj([k \in {"id", "to"} |->
                            IF k = "id" THEN Text2("s", "9") ELSE Address("B")])>>),
    valid |-> FALSE, id |-> <<>>, to |-> <<>>]}

RemoteLists ==
  UNION {[1..n -> {row.record : row \in RemoteTable}] : n \in 0..MaxRemote}

InitHistory ==
  /\ remoteRaw \in RemoteLists
  /\ savedSimulations = NotRun
  /\ executionHistory = <<>>
  /\ historyData = <<>>
  /\ now = ClockStart
  /\ recorded = <<>>
  /\ NormalizeIdle
  /\ TreeIdle
  /\ FlowIdle
  /\ AssetsIdle
  /\ SimulateIdle
  /\ TotalsIdle
  /\ NetFlowIdle
  /\ SendIdle

\* savedSimulationsQuery.queryFn resolves; historyData is recomputed
FetchSavedSimulations ==
  /\ savedSimulations = NotRun
  /\ savedSimulations' = [items |-> convertSaved(remoteRaw, now)]
  /\ historyData' = mergeHistory(savedSimulations', executionHistory)
  /\ UNCHANGED <<remoteRaw, executionHistory, now, recorded, outsideHistory>>

ExecutionBudget ==
  IF remoteRaw = <<>> THEN MaxExecutions ELSE MaxMergedExecutions

\* the txHash effect: a sent transaction is put in front of the local list;
\* `recorded` logs every execution since the last clear, newest first
RecordExecution ==
  /\ now - ClockStart < ExecutionBudget
  /\ now' = now + 1
  /\ LET record == [type |-> "execution", hash |-> now' - ClockStart,
                    timestamp |-> now', status |-> "success"]
     IN /\ executionHistory' = appendExecution(executionHistory, record)
        /\ recorded' = <<record>> \o recorded
  /\ historyData' = mergeHistory(savedSimulations, executionHistory')
  /\ UNCHANGED <<remoteRaw, savedSimulations, outsideHistory>>

\* onClearExecutions={() => setExecutionHistory([])}
ClearExecutions ==
  /\ executionHistory # <<>>
  /\ executionHistory' = <<>>
  /\ recorded' = <<>>
  /\ historyData' = mergeHistory(savedSimulations, executionHistory')
  /\ UNCHANGED <<remoteRaw, savedSimulations, now, outsideHistory>>

NextHistory == FetchSavedSimulations \/ RecordExecution \/ ClearExecutions

SpecHistory == InitHistory /\ [][NextHistory]_vars

(***************************************************************************)
(* Simulation flow (App): handleSimulate, handleViewSavedSimulation,       *)
(* handleResimulateSavedSimulation and the arrival of their responses.     *)
(* requests lists the flows in the order they were started.                *)
(***************************************************************************)
\* the HTTP call failed: tenderlyApiFetch throws
FetchFailed == [t |-> "fetchfailed"]

Returned(value) == [ok |-> TRUE, value |-> value]
\* new Error(text), as its message is later shown
Message(text) == [t |-> "message", v |-> text]

Thrown(text) == [ok |-> FALSE, message |-> Message(text)]

resultUnchecked(normalized, message) == Returned(normalized)

\* if (!result) throw new Error(message); return result;
resultOrThrow(normalized, message) ==
  IF ~Truthy(normalized) THEN Thrown(message) ELSE Returned(normalized)

\* const result = normalizeTenderlySimulateResult(body), after the fetch
normalizedOrThrow(body, message) ==
  IF body = FetchFailed THEN Thrown("Tenderly API request failed")
  ELSE resultOrThrow(normalizeTenderlySimulateResult(body), message)

tenderlySimulateAndSave(body) ==
  normalizedOrThrow(body, "Unexpected Tenderly simulate response")

tenderlyGetSavedSimulationById(body) ==
  normalizedOrThrow(body, "Unexpected Tenderly simulation response")

DetailKeys ==
  {"trace", "logs", "stateChanges", "assetChanges", "balanceChanges",
   "exposureChanges"}

\* Array.isArray(result?.trace) || Array.isArray(result?.logs) || ...
hasAnyDetails(value) == \E k \in DetailKeys : IsArray(Get(Fields(value), k))

\* safeString(container?.[key]) ?? safeString(fallback)
stringOr(container, key, fallback) ==
  Coalesce(safeString(Get(Fields(container), key)), safeString(fallback))

\* a handler that holds no history row (any more)
NoItem == [simulationId |-> Undef, from |-> Undef, to |-> Undef]

\* resetSimulationState(); setIsSimulating(true): the state a flow starts in
Pending(kind, pc, item) ==
  [kind |-> kind, pc |-> pc, item |-> item, outcome |-> "pending",
   value |-> Null, message |-> Null,
   overlaps |-> {i \in 1..Len(requests) : requests[i].pc # "done"}]

\* the try block returned or threw: finally { setIsSimulating(false) }
Settled(request, outcome, value, message) ==
  [request EXCEPT !.pc = "done", !.outcome = outcome, !.value = value,
                  !.message = message, !.item = NoItem]

\* if (!from || !toAddr) throw ...; otherwise the request that is sent
requestFor(container, item, save) ==
  LET from == stringOr(container, "from", item.from)
      toAddr == stringOr(container, "to", item.to)
  IN IF ~Truthy(from) \/ ~Truthy(toAddr) THEN Null
     ELSE [t |-> "request", from |-> from, to |-> toAddr, save |-> save]

(***************************************************************************)
(* Requests and responses of the simulation flow                           *)
(***************************************************************************)
MaxRequests == 2

AddrA == Str(<<"0", "x", "A">>)
AddrB == Str(<<"0", "x", "B">>)

\* history rows that carry a simulationId, with and without their parties
SavedItems ==
  {[simulationId |-> Str(<<"s">>), from |-> AddrA, to |-> AddrB],
   [simulationId |-> Str(<<"s">>), from |-> Undef, to |-> Undef]}

\* the form's own sender and target
FormItem == [simulationId |-> Undef, from |-> AddrA, to |-> AddrB]

Parties(known) ==
  IF known THEN Obj([k \in {"from", "to"} |-> IF k = "from" THEN AddrA ELSE AddrB])
  ELSE Obj(EmptyObj)

\* metadata-only answer to request r
MetadataBody(r, known) ==
  Obj([k \in {"id", "simulation", "transaction"} |->
         IF k = "id" THEN Num(r) ELSE Parties(known)])

\* answer to request r that carries a trace
DetailedBody(r) ==
  Obj([k \in {"id", "trace"} |->
         IF k = "id" THEN Num(r)
         ELSE Arr(<<Obj([j \in {"gas_used"} |-> Num(r)])>>)])

NonObjectBodies == {Undef, Null, Str(<<"o", "k">>), Arr(<<Obj(EmptyObj)>>)}

\* what the saved-simulation endpoint may answer to request r
SavedBodies(r) ==
  {FetchFailed} \cup NonObjectBodies
    \cup {MetadataBody(r, known) : known \in BOOLEAN} \cup {DetailedBody(r)}

\* what the simulate endpoint may answer to request r
SimulatedBodies(r) == {FetchFailed} \cup NonObjectBodies \cup {DetailedBody(r)}

InitSimulate ==
  /\ SimulateIdle
  /\ NormalizeIdle
  /\ TreeIdle
  /\ FlowIdle
  /\ AssetsIdle
  /\ HistoryIdle
  /\ TotalsIdle
  /\ NetFlowIdle
  /\ SendIdle

\* resetSimulationState(); setIsSimulating(true); the request is on its way
Begin(request) ==
  /\ simulation' = Null
  /\ simulationError' = Null
  /\ isSimulating' = TRUE
  /\ requests' = Append(requests, request)

\* handleSimulate, reachable while the Simulate button is enabled (canSimulate)
HandleSimulate ==
  /\ Len(requests) < MaxRequests
  /\ ~isSimulating
  /\ Begin(Pending("simulate", "simulate", NoItem))
  /\ simulationRequest' = requestFor(Obj(EmptyObj), FormItem, TRUE)
  /\ UNCHANGED outsideSimulate

\* handleViewSavedSimulation up to its first await
HandleViewSavedSimulation ==
  /\ Len(requests) < MaxRequests
  /\ \E item \in SavedItems :
       /\ Truthy(item.simulationId)
       /\ Begin(Pending("view", "get", item))
  /\ simulationRequest' = Null
  /\ UNCHANGED outsideSimulate

\* handleResimulateSavedSimulation up to its first await
HandleResimulateSavedSimulation ==
  /\ Len(requests) < MaxRequests
  /\ \E item \in SavedItems :
       /\ Truthy(item.simulationId)
       /\ Begin(Pending("resimulate", "get", item))
  /\ simulationRequest' = Null
  /\ UNCHANGED outsideSimulate

\* catch { setSimulationError(e.message) } finally { setIsSimulating(false) }
Fail(i, message) ==
  /\ simulationError' = message
  /\ isSimulating' = FALSE
  /\ requests' = [requests EXCEPT ![i] = Settled(@, "failed", Null, message)]
  /\ UNCHANGED <<simulation, simulationRequest>>

\* setSimulation(result); finally { setIsSimulating(false) }
Store(i, value) ==
  /\ simulation' = value
  /\ isSimulating' = FALSE
  /\ requests' = [requests EXCEPT ![i] = Settled(@, "stored", value, Null)]
  /\ UNCHANGED <<simulationError, simulationRequest>>

\* sim = result?.simulation (view), tx = prev?.transaction (re-simulate)
containerOf(kind, value) ==
  IF kind = "view" THEN Get(Fields(value), "simulation")
  ELSE Get(Fields(value), "transaction")

\* the handler of request i goes on with what the fetch returned or threw
ResumeWithSaved(i, fetched) ==
  IF ~fetched.ok THEN Fail(i, fetched.message)
  ELSE IF requests[i].kind = "view" /\ hasAnyDetails(fetched.value)
    THEN Store(i, fetched.value)
  ELSE IF requestFor(containerOf(requests[i].kind, fetched.value),
                     requests[i].item, requests[i].kind = "resimulate") = Null
    THEN Fail(i, Message(IF requests[i].kind = "view"
                         THEN "Missing from/to for simulation"
                         ELSE "Missing from/to for re-simulation"))
  ELSE /\ simulationRequest' =
            requestFor(containerOf(requests[i].kind, fetched.value),
                       requests[i].item, requests[i].kind = "resimulate")
       /\ requests' = [requests EXCEPT ![i].pc = "simulate",
                                        ![i].item = NoItem]
       /\ UNCHANGED <<simulation, simulationError, isSimulating>>

\* the saved simulation of request i arrives: the handler resumes after
\* await tenderlyGetSavedSimulationById(item.simulationId)
ReceiveSaved(i, body) ==
  /\ requests[i].pc = "get"
  /\ ResumeWithSaved(i, tenderlyGetSavedSimulationById(body))
  /\ UNCHANGED outsideSimulate

\* the simulation of request i arrives: the handler resumes after
\* await tenderlySimulateAndSave(req)
ResumeWithSimulated(i, simulated) ==
  IF simulated.ok THEN Store(i, simulated.value) ELSE Fail(i, simulated.message)

ReceiveSimulated(i, body) ==
  /\ requests[i].pc = "simulate"
  /\ ResumeWithSimulated(i, tenderlySimulateAndSave(body))
  /\ UNCHANGED outsideSimulate

NextSimulate ==
  \/ HandleSimulate
  \/ HandleViewSavedSimulation
  \/ HandleResimulateSavedSimulation
  \/ \E i \in 1..Len(requests) : \E body \in SavedBodies(i) : ReceiveSaved(i, body)
  \/ \E i \in 1..Len(requests) : \E body \in SimulatedBodies(i) : ReceiveSimulated(i, body)

SpecSimulate == InitSimulate /\ [][NextSimulate]_vars

(***************************************************************************)
(* Send form (App): validation of the four inputs, canSend and handleSend  *)
(***************************************************************************)
\* an error message of the form, as the text shown next to the field
FieldError(message) == [t |-> "error", v |-> message]

\* isAddress(value, { strict: false }): /^0x[a-fA-F0-9]{40}$/
isAddress(cs) ==
  /\ Len(cs) = 42
  /\ cs[1] = "0"
  /\ cs[2] = "x"
  /\ \A i \in 3..42 : IsHexDigit(cs[i])

\* the parts of v.split("."), as their lengths
PartLengths(cs) ==
  LET dots == {i \in 1..Len(cs) : cs[i] = "."}
      ends == dots \cup {Len(cs) + 1}
      StartOf(e) == IF \E d \in dots : d < e
                    THEN (CHOOSE d \in dots : d < e /\ \A c \in dots : c < e => c <= d) + 1
                    ELSE 1
  IN [parts |-> Cardinality(ends), shortest |-> CHOOSE n \in 0..Len(cs) :
        /\ \E e \in ends : e - StartOf(e) = n
        /\ \A e \in ends : e - StartOf(e) >= n]

isLikelyEnsName(value) ==
  LET v == trim(value)
  IN IF v = <<>> THEN FALSE
     ELSE IF Len(v) >= 2 /\ v[1] = "0" /\ v[2] \in {"x", "X"} THEN FALSE
     ELSE IF \E i \in 1..Len(v) : v[i] = " " THEN FALSE
     ELSE IF PartLengths(v).parts < 2 THEN FALSE
     ELSE PartLengths(v).shortest > 0

toTrimmed == trim(form.to)
toIsAddress == isAddress(toTrimmed)
toAddressInput == IF toIsAddress THEN Str(toTrimmed) ELSE Undef

toEnsInputOf(text) ==
  IF ~isAddress(trim(text)) /\ isLikelyEnsName(trim(text)) THEN Str(trim(text))
  ELSE Undef

toEnsInput == toEnsInputOf(form.to)

\* toAddressInput ?? toEnsAddressQuery.data ?? undefined
toResolvedAddress ==
  IF ~Nullish(toAddressInput) THEN toAddressInput
  ELSE IF ~Nullish(toEnsAddressQuery.data) THEN toEnsAddressQuery.data
  ELSE Undef

toFieldError ==
  IF toTrimmed = <<>> THEN FieldError("Enter a destination address or ENS name.")
  ELSE IF Truthy(toAddressInput) THEN Undef
  ELSE IF Truthy(toEnsInput)
    THEN (IF toEnsAddressQuery.isFetching THEN FieldError("Resolving ENS")
          ELSE IF toEnsAddressQuery.isError THEN FieldError("ENS lookup failed.")
          ELSE IF toEnsAddressQuery.data = Null THEN FieldError("ENS name not found.")
          ELSE Undef)
  ELSE FieldError("Invalid address format.")

\* calldata.trim() || "0x"
dataTrimmed == IF trim(form.calldata) = <<>> THEN <<"0", "x">> ELSE trim(form.calldata)

\* /^0x[0-9a-fA-F]*$/
dataLooksHex ==
  /\ Len(dataTrimmed) >= 2
  /\ dataTrimmed[1] = "0"
  /\ dataTrimmed[2] = "x"
  /\ \A i \in 3..Len(dataTrimmed) : IsHexDigit(dataTrimmed[i])

dataEvenLength == Len(dataTrimmed) % 2 = 0
dataIsValid == dataLooksHex /\ dataEvenLength
dataHex == IF dataIsValid THEN Str(dataTrimmed) ELSE Undef

\* /^(-?)([0-9]*)\.?([0-9]*)$/, the test parseEther makes before converting
IsDecimalText(cs) ==
  LET body == IF cs # <<>> /\ cs[1] = "-" THEN Tail(cs) ELSE cs
      dots == {i \in 1..Len(body) : body[i] = "."}
  IN /\ Cardinality(dots) <= 1
     /\ \A i \in (1..Len(body)) \ dots : IsDecDigit(body[i])

\* parseEther(text): the amount in units of 10^17 wei (the amounts entered
\* have at most one fractional digit), or Threw
parseEther(cs) ==
  IF ~IsDecimalText(cs) THEN Threw
  ELSE LET negative == cs # <<>> /\ cs[1] = "-"
           body == IF negative THEN Tail(cs) ELSE cs
           dot == IF \E i \in 1..Len(body) : body[i] = "."
                  THEN CHOOSE i \in 1..Len(body) : body[i] = "."
                  ELSE Len(body) + 1
           whole == DigitsToInt(SubSeq(body, 1, dot - 1), 10)
           tenth == IF dot < Len(body) THEN DigitValue(body[dot + 1]) ELSE 0
       IN Num((IF negative THEN 0 - 1 ELSE 1) * (whole * 10 + tenth))

valueParsed ==
  IF trim(form.valueEth) = <<>> THEN Num(0) ELSE parseEther(trim(form.valueEth))

valueWei == IF valueParsed = Threw THEN Undef ELSE valueParsed
valueError == IF valueParsed = Threw THEN FieldError("Invalid ETH amount") ELSE Undef

gasWei ==
  IF trim(form.gasLimit) # <<>> /\ IsDecLiteral(trim(form.gasLimit))
  THEN Num(DigitsToInt(trim(form.gasLimit), 10))
  ELSE Undef

gasError ==
  IF trim(form.gasLimit) = <<>> THEN Undef
  ELSE IF ~IsDecLiteral(trim(form.gasLimit)) THEN FieldError("Gas limit must be an integer")
  ELSE IF gasWei.v <= 0 THEN FieldError("Gas limit must be > 0")
  ELSE Undef

\* toFieldError || valueError || gasError || (!dataLooksHex ? ... : undefined)
formError ==
  IF toFieldError # Undef THEN toFieldError
  ELSE IF valueError # Undef THEN valueError
  ELSE IF gasError # Undef THEN gasError
  ELSE IF ~dataLooksHex THEN FieldError("Invalid calldata")
  ELSE Undef

canSend == isConnected /\ formError = Undef /\ ~isSending /\ ~isSwitching

(***************************************************************************)
(* What the user may type and what the wallet and the name service do      *)
(***************************************************************************)
Chars(n, c) == [i \in 1..n |-> c]

\* a 0x address with 40 hex digits
LongAddress(c) == <<"0", "x">> \o Chars(40, c)

ToTexts == {<<>>, LongAddress("a"), <<"a", ".", "e", "t", "h">>, <<"z", "z">>}

CalldataTexts == {<<>>, <<"0", "x", "1">>, <<" ", "0", "x", "1", "2">>, <<"z", "z">>}

ValueTexts == {<<>>, <<"1">>, <<".", "5">>, <<"x">>}

GasTexts == {<<>>, <<"2", "1">>, <<"0">>, <<"1", ".", "5">>}

QueryDisabled == [isFetching |-> FALSE, isError |-> FALSE, data |-> Undef]
QueryFetching == [isFetching |-> TRUE, isError |-> FALSE, data |-> Undef]

\* how a lookup ends: it fails, the name is unknown, the name has an address
QueryOutcomes ==
  {[isFetching |-> FALSE, isError |-> TRUE, data |-> Undef],
   [isFetching |-> FALSE, isError |-> FALSE, data |-> Null],
   [isFetching |-> FALSE, isError |-> FALSE, data |-> Str(LongAddress("b"))]}

EarlyReturn == [t |-> "returned"]
Submitted(tx) == [t |-> "submitted", tx |-> tx]

InitSend ==
  /\ SendIdle
  /\ NormalizeIdle
  /\ TreeIdle
  /\ FlowIdle
  /\ AssetsIdle
  /\ HistoryIdle
  /\ SimulateIdle
  /\ TotalsIdle
  /\ NetFlowIdle

\* setTo(text); the lookup of an ENS name starts as soon as one is entered
SetTo ==
  /\ \E text \in ToTexts :
       /\ text # form.to
       /\ form' = [form EXCEPT !.to = text]
       /\ toEnsAddressQuery' = IF toEnsInputOf(text) # Undef THEN QueryFetching
                               ELSE QueryDisabled
  /\ UNCHANGED <<isConnected, isSending, isSwitching, lastSend, outsideSend>>

SetCalldata ==
  /\ \E text \in CalldataTexts :
       /\ text # form.calldata
       /\ form' = [form EXCEPT !.calldata = text]
  /\ UNCHANGED <<isConnected, isSending, isSwitching, toEnsAddressQuery, lastSend,
                 outsideSend>>

SetValueEth ==
  /\ \E text \in ValueTexts :
       /\ text # form.valueEth
       /\ form' = [form EXCEPT !.valueEth = text]
  /\ UNCHANGED <<isConnected, isSending, isSwitching, toEnsAddressQuery, lastSend,
                 outsideSend>>

SetGasLimit ==
  /\ \E text \in GasTexts :
       /\ text # form.gasLimit
       /\ form' = [form EXCEPT !.gasLimit = text]
  /\ UNCHANGED <<isConnected, isSending, isSwitching, toEnsAddressQuery, lastSend,
                 outsideSend>>

\* toEnsAddressQuery settles
ResolveEns ==
  /\ toEnsAddressQuery.isFetching
  /\ toEnsAddressQuery' \in QueryOutcomes
  /\ UNCHANGED <<form, isConnected, isSending, isSwitching, lastSend, outsideSend>>

\* onConnect: resetSendState(); resetSimulationState(); connect({ connector })
OnConnect ==
  /\ ~isConnected
  /\ isConnected' = TRUE
  /\ isSending' = FALSE
  /\ UNCHANGED <<form, isSwitching, toEnsAddressQuery, lastSend, outsideSend>>

\* onDisconnect={disconnect}
OnDisconnect ==
  /\ isConnected
  /\ isConnected' = FALSE
  /\ UNCHANGED <<form, isSending, isSwitching, toEnsAddressQuery, lastSend, outsideSend>>

\* onSwitchChain: await switchChainAsync(...) is pending, then settles
OnSwitchChain ==
  /\ isConnected
  /\ isSwitching' = ~isSwitching
  /\ UNCHANGED <<form, isConnected, isSending, toEnsAddressQuery, lastSend, outsideSend>>

\* handleSend, reachable while the Send button is enabled (canSend)
HandleSend ==
  /\ canSend
  /\ IF toResolvedAddress = Undef \/ dataHex = Undef \/ valueWei = Undef
     THEN /\ lastSend' = EarlyReturn
          /\ UNCHANGED isSending
     ELSE /\ lastSend' = Submitted([to |-> toResolvedAddress, data |-> dataHex,
                                    value |-> valueWei, gas |-> gasWei])
          /\ isSending' = TRUE
  /\ UNCHANGED <<form, isConnected, isSwitching, toEnsAddressQuery, outsideSend>>

\* the wallet answers: the transaction is signed or rejected
SendSettles ==
  /\ isSending
  /\ isSending' = FALSE
  /\ UNCHANGED <<form, isConnected, isSwitching, toEnsAddressQuery, lastSend, outsideSend>>

\* handleClearForm: resetSendState(); ...; setTo(""); setValueEth(""); ...
HandleClearForm ==
  /\ form' = [to |-> <<>>, calldata |-> <<>>, valueEth |-> <<>>, gasLimit |-> <<>>]
  /\ toEnsAddressQuery' = QueryDisabled
  /\ isSending' = FALSE
  /\ UNCHANGED <<isConnected, isSwitching, lastSend, outsideSend>>

NextSend ==
  \/ SetTo
  \/ SetCalldata
  \/ SetValueEth
  \/ SetGasLimit
  \/ ResolveEns
  \/ OnConnect
  \/ OnDisconnect
  \/ OnSwitchChain
  \/ HandleSend
  \/ SendSettles
  \/ HandleClearForm

SpecSend == InitSend /\ [][NextSend]_vars

(***************************************************************************)
(* Properties of the normalizer                                            *)
(***************************************************************************)
\* C1: normalize returns null exactly when the root payload is not a
\* structured object (undefined, null, a scalar or an array), and returns an
\* object for every object payload.
C1_NullIffNotObject ==
  result # NotRun =>
    /\ (result = Null) <=> (payload.t # "obj")
    /\ (payload.t = "obj") => (result.t = "obj")

C1_ArrayPayloadGivesNull ==
  /\ payload.t = "arr"
  /\ Len(payload.v) > 0
  /\ result = Null

\* the payload is an envelope whose `result` is an object
IsEnvelope(p) ==
  /\ p.t = "obj"
  /\ "result" \in DOMAIN p.v
  /\ p.v["result"].t = "obj"

\* C2: for an envelope whose `result` is an object, every top-level sibling
\* other than jsonrpc, id and result is merged into the output, and a key that
\* occurs both in `result` and as a sibling carries the value from `result`.
C2_ResultWinsOnConflict ==
  (result # NotRun /\ IsEnvelope(payload)) =>
    LET r == payload.v["result"].v
        siblings == (DOMAIN payload.v) \ {"jsonrpc", "id", "result"}
    IN /\ \A k \in siblings : k \in DOMAIN result.v
       /\ \A k \in siblings \cap (DOMAIN r) : result.v[k] = r[k]

\* first spelling of `keys` that is not undefined in obj
SpellingValue(obj, keys) ==
  IF Get(obj, keys[1]) # Undef THEN Get(obj, keys[1])
  ELSE IF Len(keys) > 1 THEN Get(obj, keys[2]) ELSE Undef

\* the object searched at location l of the merged root `base`
LocationOf(base, l) ==
  CASE l = 1 -> Obj(base)
    [] l = 2 -> recordAt(base, "simulation")
    [] l = 3 -> recordAt(base, "transaction")
    [] l = 4 -> nestedRecordAt(recordAt(base, "transaction"), "transaction_info")
    [] OTHER -> nestedRecordAt(recordAt(base, "simulation"), "shared")

ValueAt(base, keys, l) == SpellingValue(Fields(LocationOf(base, l)), keys)

\* first value along `order` that is not undefined (nor null, with skipNull);
\* Undef when there is none
FirstAlong(base, keys, order, skipNull) ==
  LET Skip(value) == value = Undef \/ (skipNull /\ value = Null)
      hits == {i \in 1..Len(order) : ~Skip(ValueAt(base, keys, order[i]))}
  IN IF hits = {} THEN Undef
     ELSE ValueAt(base, keys, order[CHOOSE i \in hits : \A j \in hits : i <= j])

\* what the element normalizers make of an array found for `keys`
NormalizedArray(keys, value) ==
  CASE keys = traceKeys -> normalizeTrace(value)
    [] keys = logsKeys -> normalizeLogs(value)
    [] keys = stateChangesKeys -> normalizeStateChanges(value)
    [] keys = assetChangesKeys -> normalizeAssetChanges(value)
    [] keys = exposureChangesKeys -> normalizeExposureChanges(value)
    [] OTHER -> normalizeBalanceChanges(value)

\* the top-level value the canonical result should carry for a found value
Canonical(keys, found) ==
  IF keys \in ScalarFieldKeys \/ ~IsArray(found) THEN found
  ELSE NormalizedArray(keys, found)

UniformOrder == <<1, 2, 3, 4, 5>>

\* C3 as stated: every logical field is the first value that is not undefined
\* (null counts as found) along root, simulation, transaction,
\* transaction.transaction_info, simulation.shared, either spelling.
C3_UniformScanFirstDefined ==
  result.t = "obj" =>
    \A keys \in FieldKeys :
      Get(result.v, keys[1]) =
        Canonical(keys, FirstAlong(envelopeBase(Fields(payload)), keys,
                                   UniformOrder, FALSE))

\* the locations the code searches for each field, in order
SearchOrder(keys) ==
  CASE keys \in {gasUsedKeys, errorMessageKeys} -> <<1, 2, 3, 4>>
    [] keys = statusKeys -> <<1, 2, 3>>
    [] keys \in {traceKeys, logsKeys} -> <<1, 3, 4, 5>>
    [] OTHER -> <<1, 5, 4>>

\* C3 amended: each field has its own location list; at a location the
\* camel-case spelling is read unless it is undefined, else the snake_case one;
\* the first value along the list that is neither undefined nor null is the
\* top-level value (an array is normalized element by element); when there is
\* none the top-level value is null or absent.
C3_PerFieldScanFirstNonNullish ==
  result.t = "obj" =>
    \A keys \in FieldKeys :
      LET found == FirstAlong(envelopeBase(Fields(payload)), keys,
                              SearchOrder(keys), TRUE)
          got == Get(result.v, keys[1])
      IN IF found = Undef THEN Nullish(got)
         ELSE (keys \in ScalarFieldKeys \/ IsArray(found)) =>
                got = Canonical(keys, found)

\* a null at the root is passed over for the value under `simulation`
C3_NullRootFallsThrough ==
  /\ result.t = "obj"
  /\ payload.t = "obj"
  /\ Get(payload.v, "gasUsed") = Null
  /\ Get(result.v, "gasUsed") = Num(21)

\* C4: normalize(normalize(x)) = normalize(x) for every object payload
C4_Idempotent == renorm # NotRun => renorm = result

(***************************************************************************)
(* Properties of the call tree                                             *)
(***************************************************************************)
TreeKeys == DOMAIN tree.byKey

\* the nodes whose path extends the path of `key` by one segment
DirectChildren(byKey, key) ==
  {c \in DOMAIN byKey :
     LET cp == byKey[c].traceAddress
         kp == byKey[key].traceAddress
     IN Len(cp) = Len(kp) + 1 /\ SubSeq(cp, 1, Len(kp)) = kp}

RECURSIVE SumSet(_, _)
SumSet(S, f) ==
  IF S = {} THEN 0
  ELSE LET x == CHOOSE y \in S : TRUE IN f[x] + SumSet(S \ {x}, f)

NonNegative(n) == IF n > 0 THEN n ELSE 0

\* C5: for every node of either construction,
\* exclusive = max(0, inclusive - sum of the inclusive gas of the direct
\* children), the direct children being the nodes one path segment below.
C5_ExclusiveGasFormula ==
  /\ TreeBuilt =>
       \A k \in TreeKeys :
         tree.byKey[k].exclusiveGasUsedBi =
           NonNegative(tree.byKey[k].gasUsedBi
                         - SumSet(DirectChildren(tree.byKey, k),
                                  [c \in TreeKeys |-> tree.byKey[c].gasUsedBi]))
  /\ GasNodesBuilt =>
       \A k \in DOMAIN gasNodes.byKey :
         gasNodes.byKey[k].exclusiveGasUsed =
           NonNegative(gasNodes.byKey[k].gasUsed
                         - SumSet(DirectChildren(gasNodes.byKey, k),
                                  [c \in DOMAIN gasNodes.byKey |->
                                     gasNodes.byKey[c].gasUsed]))

\* the entry behind a node carries an error: a non-empty error string
CarriesError(key) ==
  LET e == Get(Fields(lastEntryOf(trace, keysOfTrace(trace), key)), "error")
  IN e.t = "str" /\ e.v # <<>>

IsErrorOrigin(key) == tree.byKey[key].errorDisplay # Undef

\* C6: a node is an error origin exactly when it carries an error and none of
\* its direct children carries one.
C6_ErrorOriginIffDeepest ==
  TreeBuilt =>
    \A k \in TreeKeys :
      IsErrorOrigin(k) <=>
        (CarriesError(k)
           /\ \A c \in DirectChildren(tree.byKey, k) : ~CarriesError(c))

\* a root and its only child carry the error: only the child is the origin
C6_OnlyChildIsOrigin ==
  /\ TreeBuilt
  /\ TreeKeys = {"[]", "[0]"}
  /\ CarriesError("[]")
  /\ CarriesError("[0]")
  /\ ~IsErrorOrigin("[]")
  /\ IsErrorOrigin("[0]")
  /\ tree.byKey["[0]"].errorDisplay = Revert

\* C7: no node is an error origin and the parent of an error origin.
C7_NoOriginAboveOrigin ==
  TreeBuilt =>
    \A k \in TreeKeys :
      \A c \in DirectChildren(tree.byKey, k) :
        ~(IsErrorOrigin(k) /\ IsErrorOrigin(c))

\* a failing parent with one failing and one clean child
C7_MixedChildren ==
  /\ TreeBuilt
  /\ TreeKeys = {"[]", "[0]", "[1]"}
  /\ CarriesError("[]")
  /\ CarriesError("[0]")
  /\ ~CarriesError("[1]")
  /\ IsErrorOrigin("[0]")
  /\ ~IsErrorOrigin("[]")

\* the nodes reachable from the nodes of S through direct-children links
RECURSIVE Descendants(_, _)
Descendants(byKey, S) ==
  LET next == S \cup UNION {DirectChildren(byKey, k) : k \in S}
  IN IF next = S THEN S ELSE Descendants(byKey, next)

SubtreeHasError(key) == tree.byKey[key].subtreeHasErrorDisplay

\* C8: subtreeHasError(node) = isErrorOrigin(node) or subtreeHasError of some
\* direct child; it is true exactly when the node or a descendant is an error
\* origin.
C8_SubtreeFlagIsDownwardClosure ==
  TreeBuilt =>
    \A k \in TreeKeys :
      /\ SubtreeHasError(k) <=>
           (IsErrorOrigin(k)
              \/ \E c \in DirectChildren(tree.byKey, k) : SubtreeHasError(c))
      /\ SubtreeHasError(k) <=>
           \E d \in Descendants(tree.byKey, {k}) : IsErrorOrigin(d)

\* the failing frame is two levels down and comes first in the trace
C8_DeepOriginListedFirst ==
  /\ TreeBuilt
  /\ Len(trace) = 3
  /\ keyOf(trace[1]) = "[0,0]"
  /\ keyOf(trace[2]) = "[]"
  /\ TreeKeys = {"[]", "[0]", "[0,0]"}
  /\ IsErrorOrigin("[0,0]")
  /\ ~CarriesError("[0]")
  /\ ~CarriesError("[]")
  /\ SubtreeHasError("[]")

RootKeys == {tree.roots[i] : i \in 1..Len(tree.roots)}

\* C9: the roots are all the nodes without a parent node in the tree, and
\* every node is reachable from the roots through children links.
C9_RootsCoverEveryNode ==
  TreeBuilt =>
    /\ RootKeys =
         {k \in TreeKeys : ~\E q \in TreeKeys : k \in DirectChildren(tree.byKey, q)}
    /\ Descendants(tree.byKey, RootKeys) = TreeKeys

\* the entries whose path is missing, not an array, or empty
TopLevelEntries ==
  {i \in 1..Len(trace) :
     LET a == Get(Fields(trace[i]), "traceAddress")
     IN ~IsArray(a) \/ a.v = <<>>}

\* C10: each entry with an empty or missing path is a node of its own,
\* present in nodesByKey and in roots.
C10_EveryTopLevelEntryIsARoot ==
  TreeBuilt =>
    /\ Len(tree.roots) = Cardinality(TopLevelEntries)
    /\ \A i \in TopLevelEntries :
         \E k \in RootKeys :
           /\ tree.byKey[k].gasUsedBi = gasOf(trace[i])
           /\ tree.byKey[k].error = errorOf(trace[i])

(***************************************************************************)
(* Properties of the flow series sampling                                  *)
(***************************************************************************)
Min(a, b) == IF a <= b THEN a ELSE b

\* the elements of a from index i on are elements of b taken at strictly
\* increasing indices from j on
RECURSIVE TakenInOrder(_, _, _, _)
TakenInOrder(a, b, i, j) ==
  IF i > Len(a) THEN TRUE
  ELSE IF j > Len(b) THEN FALSE
  ELSE IF a[i] = b[j] THEN TakenInOrder(a, b, i + 1, j + 1)
  ELSE TakenInOrder(a, b, i, j + 1)

Distinct(b) == \A i, j \in 1..Len(b) : b[i] = b[j] => i = j

\* a is b with some elements left out; when the elements of b are pairwise
\* distinct every element has one index in b, and those must increase along a
IsSubsequence(a, b) ==
  IF Distinct(b)
  THEN /\ \A i \in 1..Len(a) : \E j \in 1..Len(b) : b[j] = a[i]
       /\ \A i \in 1..(Len(a) - 1) :
            (CHOOSE j \in 1..Len(b) : b[j] = a[i])
              < (CHOOSE j \in 1..Len(b) : b[j] = a[i + 1])
  ELSE TakenInOrder(a, b, 1, 1)

\* C11: for every series and every integer k >= 1, downsample(series, k) has
\* exactly min(len(series), k) points, never more than k, and its points are
\* elements of the input taken at strictly increasing indices; the chart's
\* series obeys the same bound for its budget of 60 points.
C11_DownsampleBound ==
  /\ sampled # NotRun =>
       /\ Len(sampled.points) = Min(Len(series), pointBudget)
       /\ Len(sampled.points) <= pointBudget
       /\ IsSubsequence(sampled.points, series)
  /\ flowValues # NotRun =>
       /\ Len(flowValues.points) <= FlowMaxPoints
       /\ flowRange = "all" =>
            Len(flowValues.points) = Min(Len(series), FlowMaxPoints)
       /\ IsSubsequence(flowValues.points, series)

\* a series longer than the budget is thinned, in both uses
C11_LongSeriesThinned ==
  /\ sampled # NotRun
  /\ Len(series) > pointBudget
  /\ pointBudget > 1
  /\ Len(sampled.points) = pointBudget
  /\ sampled.points # SubSeq(series, 1, pointBudget)
  /\ flowRange = "all"
  /\ flowValues # NotRun
  /\ Len(series) > FlowMaxPoints
  /\ Len(flowValues.points) = FlowMaxPoints

(***************************************************************************)
(* Properties of the flow aggregates                                       *)
(***************************************************************************)
RowOf(change) == CHOOSE row \in ChangeTable : row.change = change

\* total magnitude of the first n records whose `role` ("from" or "to") is
\* the participant `who`
RECURSIVE TotalOf(_, _, _, _)
TotalOf(changes, n, role, who) ==
  IF n = 0 THEN 0
  ELSE TotalOf(changes, n - 1, role, who)
         + (IF RowOf(changes[n])[role] = who THEN RowOf(changes[n]).usd ELSE 0)

\* total magnitude of the first n records that name a participant as `role`
RECURSIVE TotalNamed(_, _, _)
TotalNamed(changes, n, role) ==
  IF n = 0 THEN 0
  ELSE TotalNamed(changes, n - 1, role)
         + (IF RowOf(changes[n])[role] # "-" THEN RowOf(changes[n]).usd ELSE 0)

LedgerIn ==
  SumSet(DOMAIN stats.byParticipant,
         [k \in DOMAIN stats.byParticipant |-> stats.byParticipant[k].inUsd])

LedgerOut ==
  SumSet(DOMAIN stats.byParticipant,
         [k \in DOMAIN stats.byParticipant |-> stats.byParticipant[k].outUsd])

StatsComputed == stats # NotRun /\ stats # Threw

\* every record that carries an amount names both a sender and a recipient
EveryTransferHasBothEnds ==
  \A i \in 1..Len(assetChanges) :
    LET row == RowOf(assetChanges[i])
    IN row.usd > 0 => (row.from # "-" /\ row.to # "-")

\* C12 as stated: in every batch, records without a from or a to address
\* included, the participants' inUsd and outUsd have the same sum.
C12_LedgerBalancesAlways == StatsComputed => LedgerIn = LedgerOut

\* C12 amended: the sum of inUsd is the total magnitude of the qualifying
\* records that name a recipient and the sum of outUsd that of those naming a
\* sender, so the two sums are equal in every batch whose qualifying records
\* all name both; a record lacking one address contributes its other leg only.
C12_LedgerBalancesWhenBothEndsNamed ==
  StatsComputed =>
    /\ LedgerIn = TotalNamed(assetChanges, Len(assetChanges), "to")
    /\ LedgerOut = TotalNamed(assetChanges, Len(assetChanges), "from")
    /\ EveryTransferHasBothEnds => LedgerIn = LedgerOut

\* three participants, every transfer two-sided, the legs balance
C12_ThreeParticipantsBalanced ==
  /\ StatsComputed
  /\ EveryTransferHasBothEnds
  /\ Cardinality(DOMAIN stats.byParticipant) = 3
  /\ LedgerIn = LedgerOut
  /\ LedgerIn > 100000

ActorName == (CHOOSE row \in ActorTable : row.actor = actorAddress).name

\* C13: with an actor set, receivedUsd is the total magnitude of the
\* qualifying records whose recipient is the actor, sentUsd that of those whose
\* sender is the actor (letter case ignored), netUsd = receivedUsd - sentUsd;
\* for [A->B 100, B->A 40] and actor A: received 40, sent 100, net -60, and
\* participant B has in 100, out 40, net 60.
C13_ActorTotals ==
  (StatsComputed /\ ActorName # "-") =>
    /\ stats.receivedUsd = TotalOf(assetChanges, Len(assetChanges), "to", ActorName)
    /\ stats.sentUsd = TotalOf(assetChanges, Len(assetChanges), "from", ActorName)
    /\ stats.netUsd = stats.receivedUsd - stats.sentUsd
    /\ ( /\ Len(assetChanges) = 2
         /\ RowOf(assetChanges[1]).usd = 10000
         /\ RowOf(assetChanges[2]).usd = 4000
         /\ ActorName = "A" ) =>
         /\ stats.receivedUsd = 4000
         /\ stats.sentUsd = 10000
         /\ stats.netUsd = 0 - 6000
         /\ Len(stats.participantRows) = 1
         /\ stats.participantRows[1].key = <<"0", "x", "b">>
         /\ stats.participantRows[1].inUsd = 10000
         /\ stats.participantRows[1].outUsd = 4000
         /\ stats.participantRows[1].netUsd = 6000

\* the scenario: A sends 100 to B, B sends 40 back, seen from A
C13_ScenarioSeenFromA ==
  /\ StatsComputed
  /\ ActorName = "A"
  /\ Len(assetChanges) = 2
  /\ RowOf(assetChanges[1]).usd = 10000
  /\ RowOf(assetChanges[2]).usd = 4000
  /\ stats.netUsd = 0 - 6000

(***************************************************************************)
(* Properties of the history feed                                          *)
(***************************************************************************)
RowOfRecord(record) == CHOOSE row \in RemoteTable : row.record = record

\* the positions of the list whose record can be shown, in order
ValidPositions ==
  LET Valid(i) == RowOfRecord(remoteRaw[i]).valid
  IN SelectSeq([i \in 1..Len(remoteRaw) |-> i], Valid)

LoadedSimulations ==
  IF savedSimulations = NotRun THEN <<>> ELSE savedSimulations.items

Occurrences(x, items) == Cardinality({i \in 1..Len(items) : items[i] = x})

ItemsOf(items) == {items[i] : i \in 1..Len(items)}

\* C14: the merged feed holds exactly the items converted from the valid
\* remote simulations plus the local execution records (its length is the sum
\* of the two) and is ordered by timestamp, non-increasing.
C14_FeedIsSortedUnion ==
  /\ Len(historyData) =
       (IF savedSimulations = NotRun THEN 0 ELSE Len(ValidPositions))
         + Len(executionHistory)
  /\ \A x \in ItemsOf(historyData) \cup ItemsOf(LoadedSimulations)
                \cup ItemsOf(executionHistory) :
       Occurrences(x, historyData) =
         Occurrences(x, LoadedSimulations) + Occurrences(x, executionHistory)
  /\ \A i \in 1..(Len(historyData) - 1) :
       historyData[i].timestamp >= historyData[i + 1].timestamp

\* an old simulation, one dated like the first execution and two executions
C14_SimulationsAmongExecutions ==
  /\ Len(LoadedSimulations) = 2
  /\ Len(executionHistory) = 2
  /\ Len(historyData) = 4
  /\ historyData[1].type = "execution"
  /\ historyData[2].timestamp = historyData[3].timestamp
  /\ historyData[4].type = "simulation"

\* C15: each remote record is converted on its own: a record that is not an
\* object, has no derivable simulation identifier or no destination address
\* is left out, every other record yields exactly one simulation item, in list
\* order, whatever the other records of the list are.
C15_RecordsConvertedIndependently ==
  savedSimulations # NotRun =>
    /\ Len(savedSimulations.items) = Len(ValidPositions)
    /\ \A k \in 1..Len(ValidPositions) :
         LET row == RowOfRecord(remoteRaw[ValidPositions[k]])
             item == savedSimulations.items[k]
         IN /\ item.type = "simulation"
            /\ item.simulationId = Str(row.id)
            /\ item.to = Str(row.to)

\* a record without destination ahead of a good one
C15_BadRecordSkipped ==
  /\ savedSimulations # NotRun
  /\ Len(remoteRaw) = 2
  /\ ~RowOfRecord(remoteRaw[1]).valid
  /\ remoteRaw[1].t = "obj"
  /\ Len(savedSimulations.items) = 1
  /\ savedSimulations.items[1].simulationId = Str(<<"s", "3">>)

\* C16: the local list holds at most 50 items: the most recent
\* min(n, 50) of the n executions recorded since the last clear, newest first.
C16_NewestFiftyKept ==
  /\ Len(executionHistory) <= 50
  /\ Len(executionHistory) = Min(Len(recorded), 50)
  /\ executionHistory = SubSeq(recorded, 1, Len(executionHistory))

\* the 51st execution pushes the oldest one out
C16_OldestEvicted ==
  /\ Len(recorded) = 51
  /\ Len(executionHistory) = 50
  /\ executionHistory[1].hash = 51
  /\ executionHistory[50].hash = 2

(***************************************************************************)
(* Properties of the simulation flow                                       *)
(***************************************************************************)
AllSettled == \A i \in 1..Len(requests) : requests[i].pc = "done"

\* request j was started while request i was still pending
Overlapped(i, j) == i < j /\ i \in requests[j].overlaps

UnexpectedMessages ==
  {Message("Unexpected Tenderly simulate response"),
   Message("Unexpected Tenderly simulation response")}

\* C17: when two requests were in flight at once and both have stored a
\* result, the simulation the app holds is the result of the request that
\* was issued later, whatever the order in which the responses arrived.
C17_LaterRequestWins ==
  \A i, j \in 1..Len(requests) :
    (/\ AllSettled
     /\ j = Len(requests)
     /\ Overlapped(i, j)
     /\ requests[i].outcome = "stored"
     /\ requests[j].outcome = "stored")
      => simulation = requests[j].value

\* the step in which request i receives a body that is not an object
ReceivesNonObject(i, body) == ReceiveSaved(i, body) \/ ReceiveSimulated(i, body)

\* C18: a simulate or fetch-by-id response whose body is not an object ends
\* the flow with the 'unexpected response' failure: simulationError is set to
\* that message, the flow stores no simulation result (none at all is held
\* when no other request was in flight), and isSimulating is false.
C18_NonObjectResponseFails ==
  [][\A i \in 1..Len(requests) : \A body \in NonObjectBodies :
       ReceivesNonObject(i, body) =>
         /\ simulationError' \in UnexpectedMessages
         /\ simulationError' =
              Message(IF requests[i].pc = "get"
                      THEN "Unexpected Tenderly simulation response"
                      ELSE "Unexpected Tenderly simulate response")
         /\ simulation' = simulation
         /\ (Len(requests) = 1 => simulation' = Null)
         /\ isSimulating' = FALSE
         /\ requests'[i].pc = "done"
         /\ requests'[i].outcome = "failed"]_vars

\* C18 witness: a re-simulation whose second response was not an object has
\* ended with the failure shown, nothing stored and the spinner off.
C18_UnexpectedResponseShown ==
  /\ Len(requests) = 1
  /\ requests[1].kind = "resimulate"
  /\ requests[1].pc = "done"
  /\ requests[1].message = Message("Unexpected Tenderly simulate response")
  /\ simulationError = Message("Unexpected Tenderly simulate response")
  /\ simulationRequest # Null
  /\ simulation = Null
  /\ isSimulating = FALSE

(***************************************************************************)
(* Malformed elements of the nested collections                            *)
(***************************************************************************)
IsObjectElement(e) == e.t = "obj"

\* the positions that the kept elements of a collection were numbered with
PositionsOf(elements) ==
  [i \in 1..Len(elements) |-> Get(Fields(elements[i]), "position")]

\* the payload holds, under one name of the collection, a mixed array
MixedUnder(keys) ==
  /\ payload \in MixedPayloads
  /\ \E a \in 1..Len(keys) : DOMAIN payload.v = {keys[a]}

MixedSource(keys) == payload.v[CHOOSE k \in DOMAIN payload.v : TRUE].v

\* C19: for each of trace, logs, stateChanges, assetChanges, exposureChanges
\* and balanceChanges, normalize yields a result whose collection holds one
\* element per object element of the source, in the source's order, and
\* nothing for the elements that are not objects; malformed elements never
\* make it fail or lose the rest of the collection.
C19_MalformedElementsDropped ==
  \A keys \in ArrayFieldKeys :
    (result # NotRun /\ MixedUnder(keys)) =>
      /\ result # Null
      /\ IsArray(Get(Fields(result), keys[1]))
      /\ \A i \in 1..Len(Get(Fields(result), keys[1]).v) :
            IsObjectElement(Get(Fields(result), keys[1]).v[i])
      /\ PositionsOf(Get(Fields(result), keys[1]).v)
           = PositionsOf(SelectSeq(MixedSource(keys), IsObjectElement))

\* C19 witness: a state_changes array of an object, a null and another object
\* was normalized to the two objects, first before third.
C19_ObjectsAroundNullKept ==
  /\ result # NotRun
  /\ MixedUnder(stateChangesKeys)
  /\ "state_changes" \in DOMAIN payload.v
  /\ Len(MixedSource(stateChangesKeys)) = 3
  /\ MixedSource(stateChangesKeys)[2] = Null
  /\ PositionsOf(Get(Fields(result), "stateChanges").v) = <<Num(1), Num(3)>>

(***************************************************************************)
(* Malformed entries of the trace                                          *)
(***************************************************************************)
\* the keys of the entries of the trace that are objects
ObjectEntryKeys == {keyOf(trace[i]) : i \in {j \in 1..Len(trace) : trace[j].t = "obj"}}

\* C20: build never aborts: for any list of entries, including entries that
\* are not objects (null, undefined, scalars), both constructions return a
\* value whose nodes are those of the object entries, the other entries
\* being skipped; for the empty list the roots and the node map are empty.
C20_BuildSkipsMalformedEntries ==
  /\ gasNodes # Threw
  /\ tree # Threw
  /\ GasNodesBuilt =>
       /\ DOMAIN gasNodes.byKey = ObjectEntryKeys
       /\ trace = <<>> => gasNodes.order = <<>>
  /\ TreeBuilt =>
       /\ DOMAIN tree.byKey = ObjectEntryKeys
       /\ trace = <<>> => tree.roots = <<>>

(***************************************************************************)
(* Properties of the gas aggregates                                        *)
(***************************************************************************)
TotalsComputed == totals # NotRun

\* the figure the top-level gasUsed states, -1 when it states none
GasFigure == (CHOOSE row \in GasUsedTable : row.raw = simulationGasUsed).figure

\* max(0, totalGas - executionGas), never negative, and no division by zero
OverheadWellFormed ==
  /\ totals.overheadGas >= 0
  /\ totals.overheadGas =
       (IF totals.totalGas - totals.executionGas > 0
        THEN totals.totalGas - totals.executionGas ELSE 0)
  /\ totals.totalGas = 0 => totals.overheadPct = 0

\* C21: totalGas is the top-level gas-used figure whenever that figure is
\* present, zero included, and the sum of the nodes' exclusive gas only when
\* it is absent; overheadGas is never negative; overheadPct is 0 when
\* totalGas is 0.
C21_PresentFigureAlwaysUsed ==
  TotalsComputed =>
    /\ totals.totalGas =
         (IF GasFigure >= 0 THEN GasFigure ELSE totals.executionGas)
    /\ OverheadWellFormed

\* C21 (amended): totalGas is the top-level gas-used figure when that figure
\* is present and greater than zero, and the sum of the nodes' exclusive gas
\* when it is absent or zero; overheadGas = max(0, totalGas - executionGas);
\* overheadPct is 0 when totalGas is 0.
C21_PositiveFigureUsed ==
  TotalsComputed =>
    /\ totals.totalGas =
         (IF GasFigure > 0 THEN GasFigure ELSE totals.executionGas)
    /\ OverheadWellFormed

\* C21 witness: the top-level figure is 0 while the frames burn gas, and the
\* total is the frames' sum.
C21_ZeroFigureFallsBack ==
  /\ TotalsComputed
  /\ GasFigure = 0
  /\ totals.executionGas > 0
  /\ totals.totalGas = totals.executionGas
  /\ totals.overheadGas = 0

\* the strictly positive exclusive gas values, ascending
PositiveExclusive == sortAscending(SelectSeq(exclusiveGasOf(gasNodes), IsPositive))

\* C22: peakVsMedian (in hundredths) is the largest exclusive gas over the
\* median of the strictly positive exclusive values, 0 when there are none;
\* for an even number of values with central values a and b the ratio is
\* 2 * max / (a + b), the half not being truncated.
C22_MedianIsExactMean ==
  TotalsComputed =>
    LET n == Len(PositiveExclusive)
    IN totals.maxVsMedian =
         (IF n = 0 THEN 0
          ELSE IF n % 2 = 1
            THEN (PositiveExclusive[n] * 100) \div PositiveExclusive[(n \div 2) + 1]
          ELSE (2 * PositiveExclusive[n] * 100)
                 \div (PositiveExclusive[n \div 2] + PositiveExclusive[(n \div 2) + 1]))

\* path and inclusive gas of the entries of the trace, as they were written
PathAt(i) == trace[i].v["traceAddress"].v

GasAt(i) ==
  LET raw == trace[i].v["gasUsed"]
  IN IF raw.t = "num" THEN raw.v
     ELSE IF raw = Str(<<"0", "x", "6", "4">>) THEN 100
     ELSE 50

IsChildEntry(i, j) ==
  /\ Len(PathAt(j)) = Len(PathAt(i)) + 1
  /\ SubSeq(PathAt(j), 1, Len(PathAt(i))) = PathAt(i)

\* one empty-path entry, distinct paths, every other entry's parent present
WellFormedTrace ==
  /\ Cardinality({i \in 1..Len(trace) : PathAt(i) = <<>>}) = 1
  /\ \A i, j \in 1..Len(trace) : i # j => PathAt(i) # PathAt(j)
  /\ \A j \in 1..Len(trace) :
       PathAt(j) # <<>> => \E i \in 1..Len(trace) : IsChildEntry(i, j)

\* each frame's inclusive gas covers its direct children's
ConsistentGas ==
  \A i \in 1..Len(trace) :
    GasAt(i) >= SumSet({j \in 1..Len(trace) : IsChildEntry(i, j)},
                       [j \in 1..Len(trace) |-> GasAt(j)])

RootGas == GasAt(CHOOSE i \in 1..Len(trace) : PathAt(i) = <<>>)

\* C23: for a well-formed trace whose gas is consistent, executionGas, the
\* sum of the exclusive gas of all nodes, equals the root's inclusive gas.
C23_ExecutionGasIsRootGas ==
  (TotalsComputed /\ WellFormedTrace /\ ConsistentGas) =>
    totals.executionGas = RootGas

\* C23 witness: root 100 with one child 50 gives exclusive 50 and 50, in
\* total 100.
C23_RootHundredChildFifty ==
  /\ TotalsComputed
  /\ trace = ScenarioTrace
  /\ exclusiveGasOf(gasNodes) = <<50, 50>>
  /\ totals.executionGas = 100

(***************************************************************************)
(* Records without a USD value                                             *)
(***************************************************************************)
TokenNames == {row.token : row \in ChangeTable}

TokenKey(name) ==
  CASE name = "USD" -> <<"U", "S", "D">>
    [] name = "ETH" -> <<"E", "T", "H">>
    [] OTHER -> <<"U", "n", "k", "n", "o", "w", "n">>

\* the records of the batch listed under a token
RecordsOf(name) ==
  {i \in 1..Len(assetChanges) : RowOf(assetChanges[i]).token = name}

\* the transfer count and the USD total shown for a token, 0 without a row
TokenCount(name) ==
  LET rows == {i \in 1..Len(stats.tokenRows) : stats.tokenRows[i].key = TokenKey(name)}
  IN IF rows = {} THEN 0 ELSE stats.tokenRows[CHOOSE i \in rows : TRUE].count

TokenUsd(name) ==
  LET rows == {i \in 1..Len(stats.tokenRows) : stats.tokenRows[i].key = TokenKey(name)}
  IN IF rows = {} THEN 0 ELSE stats.tokenRows[CHOOSE i \in rows : TRUE].usd

\* no record of the batch carries a parseable value of zero
NoZeroValued ==
  \A i \in 1..Len(assetChanges) : RowOf(assetChanges[i]).value # "zero"

\* C24: a record whose USD value is absent or unparsable adds nothing to the
\* monetary aggregates (transfer volume, per-token USD) but is counted in
\* the count-based ones: each token's transfer count is the number of the
\* batch's records listed under it, valued or not.
C24_ValuelessRecordsCounted ==
  (StatsComputed /\ NoZeroValued) =>
    /\ stats.totalVolumeUsd =
         SumSet(1..Len(assetChanges),
                [i \in 1..Len(assetChanges) |-> RowOf(assetChanges[i]).usd])
    /\ \A name \in TokenNames :
         /\ TokenUsd(name) =
              SumSet(RecordsOf(name),
                     [i \in 1..Len(assetChanges) |-> RowOf(assetChanges[i]).usd])
         /\ TokenCount(name) = Cardinality(RecordsOf(name))

(***************************************************************************)
(* Properties of the net flow selection                                    *)
(***************************************************************************)
NetFlowComputed == netFlowData # NotRun

RowSet == {participantRows[i] : i \in 1..Len(participantRows)}

\* participants whose net is above the epsilon in magnitude
QualifyingRows == {p \in RowSet : p.netUsd > NetEpsilon \/ p.netUsd < 0 - NetEpsilon}
GainerRows == {p \in QualifyingRows : p.netUsd > 0}
LoserRows == {p \in QualifyingRows : p.netUsd < 0}

ShownEntries == {netFlowData.shown[i] : i \in 1..Len(netFlowData.shown)}
ShownRows == {p \in RowSet : [address |-> p.address, net |-> p.netUsd] \in ShownEntries}

\* the shown participants of one side are `count` of that side, none of them
\* smaller in magnitude than one left out
LargestAmong(side, kept, count) ==
  /\ Cardinality(kept) = count
  /\ \A p \in kept : \A q \in side \ kept : Abs(p.netUsd) >= Abs(q.netUsd)

LargestOf(side, count) == LargestAmong(side, ShownRows \cap side, count)

AllQualifyingShown ==
  /\ ShownRows = QualifyingRows
  /\ Len(netFlowData.shown) = Cardinality(QualifyingRows)

\* C25 (as stated): with more than twelve qualifying participants the
\* result is exactly the six largest gainers and the six largest losers,
\* twelve entries; with twelve or fewer, all qualifying participants.
C25_ExactlySixEachSide ==
  NetFlowComputed =>
    IF Cardinality(QualifyingRows) > MaxShown
    THEN /\ Len(netFlowData.shown) = 2 * SideShown
         /\ ShownRows \subseteq QualifyingRows
         /\ LargestOf(GainerRows, SideShown)
         /\ LargestOf(LoserRows, SideShown)
    ELSE AllQualifyingShown

\* C25 (amended): with more than twelve qualifying participants the result
\* is the largest gainers, up to six of them, followed by the largest
\* losers, up to six of them, so it has twelve entries only when each side
\* has at least six; with twelve or fewer, all qualifying participants.
C25_UpToSixEachSide ==
  NetFlowComputed =>
    IF Cardinality(QualifyingRows) > MaxShown
    THEN /\ Len(netFlowData.shown) =
              Min(SideShown, Cardinality(GainerRows))
              + Min(SideShown, Cardinality(LoserRows))
         /\ ShownRows \subseteq QualifyingRows
         /\ LargestOf(GainerRows, Min(SideShown, Cardinality(GainerRows)))
         /\ LargestOf(LoserRows, Min(SideShown, Cardinality(LoserRows)))
    ELSE AllQualifyingShown

\* thirteen qualifying participants, five of them losers: eleven entries
C25_FewerThanSixLosers ==
  /\ NetFlowComputed
  /\ Cardinality(QualifyingRows) > MaxShown
  /\ Cardinality(LoserRows) < SideShown
  /\ Len(netFlowData.shown) = SideShown + Cardinality(LoserRows)

(***************************************************************************)
(* Timestamps of the remote records                                        *)
(***************************************************************************)
\* the time each showable record of the table carries, in units of 10^5 ms:
\* the text "1971" is 1971-01-01 (365 days), a number below the ceiling is in
\* seconds, a number from the ceiling on is in milliseconds
CarriedTime(id) ==
  CASE id = <<"s", "1">> -> 365 * 864
    [] id = <<"s", "2">> -> ClockStart + 1
    [] id = <<"s", "3">> -> 0 * 1000
    [] id = <<"s", "4">> -> 17 * 1000

\* C26: the item of a remote record is dated v * 1000 for a numeric timestamp
\* v under the ceiling, v for a larger one, the parsed calendar time for a
\* text, and the current time only when the record carries no timestamp.
C26_TimestampConverted ==
  savedSimulations # NotRun =>
    \A k \in 1..Len(ValidPositions) :
      savedSimulations.items[k].timestamp =
        CarriedTime(RowOfRecord(remoteRaw[ValidPositions[k]]).id)

(***************************************************************************)
(* Result, error and busy flag under overlapping requests                  *)
(***************************************************************************)
\* C27: under any interleaving of the three handlers and the arrival of
\* their responses, `simulation` and `simulationError` are never both
\* non-null.
C27_ResultAndErrorExclusive == ~(simulation # Null /\ simulationError # Null)

AwaitingResponse == \E i \in 1..Len(requests) : requests[i].pc # "done"

\* C28: isSimulating is true in every state in which at least one request
\* still awaits its response, and false once every issued request has
\* resolved or failed.
C28_BusyWhilePending == isSimulating <=> AwaitingResponse

(***************************************************************************)
(* The two builders side by side                                           *)
(***************************************************************************)
BothBuilt == TreeBuilt /\ GasNodesBuilt

\* C29: buildGasNodes and buildTree produce the same set of path keys and
\* the same inclusive and exclusive gas for every key, also for traces with
\* repeated paths or entries whose parent is missing.
C29_BuildersAgree ==
  BothBuilt =>
    /\ DOMAIN tree.byKey = DOMAIN gasNodes.byKey
    /\ \A k \in DOMAIN tree.byKey :
         /\ tree.byKey[k].parentKey = gasNodes.byKey[k].parentKey
         /\ tree.byKey[k].gasUsedBi = gasNodes.byKey[k].gasUsed
         /\ tree.byKey[k].exclusiveGasUsedBi = gasNodes.byKey[k].exclusiveGasUsed

\* a path that occurs twice, a frame whose parent is missing and a frame
\* that is charged less than its inclusive gas
C29_RepeatedAndOrphaned ==
  /\ BothBuilt
  /\ Len(trace) > Cardinality(DOMAIN gasNodes.byKey)
  /\ \E k \in DOMAIN gasNodes.byKey :
       /\ gasNodes.byKey[k].parentKey # NoParent
       /\ gasNodes.byKey[k].parentKey \notin DOMAIN gasNodes.byKey
  /\ \E k \in DOMAIN tree.byKey :
       /\ tree.byKey[k].exclusiveGasUsedBi > 0
       /\ tree.byKey[k].exclusiveGasUsedBi < tree.byKey[k].gasUsedBi

(***************************************************************************)
(* Properties of the send form                                             *)
(***************************************************************************)
\* C30: whenever the Send button is enabled, handleSend submits a
\* transaction; in no form state does it return without calling
\* sendTransaction.
C30_EnabledSendSubmits == lastSend # EarlyReturn

====
